---- MODULE Spec2Model ----
(***************************************************************************)
(* cctailpipe: incremental tail-and-dispatch engine.                       *)
(*                                                                         *)
(*   JsonlStreamProcessor   (core/JsonlStreamProcessor.ts)                 *)
(*   ProcessingPipelineManager (core/ProcessingPipelineManager.ts)         *)
(*   FileWatcher / JsonlStreamServer                                       *)
(*                                                                         *)
(* A file is a sequence of bytes: "1" (a byte of a JSON number), "n" (the  *)
(* line feed) and, where malformed lines matter, "{" (a byte that makes a  *)
(* line invalid JSON) and " " (white space).  JSON.parse accepts exactly   *)
(* the lines that are a non-empty run of "1" between white space, and the  *)
(* two lines "i" and "e" that stand for {"level":"info"} and               *)
(* {"level":"error"}.                                                      *)
(***************************************************************************)
EXTENDS Naturals, Integers, Sequences, FiniteSets, TLC

\* ---------------------------------------------------------------- bounds
MaxFileSize == 3        \* bytes a watched file may hold
MaxPasses == 3          \* accepted processFile calls in one behaviour
MaxCuts == 1            \* truncations and deletions of one file
MaxConfigSize == 4      \* pipelines plus plugin names in one configuration
MaxLineBytes == 5       \* bytes of a file with malformed lines
MaxLog == 6             \* start/stop calls and watcher events in one behaviour
MaxTailSize == 4        \* bytes of a file that is tailed from its end
MaxSeeds == 1           \* initializeFilePosition calls that record a size
MaxRegs == 4            \* addFilter / addOutput calls in one behaviour
MaxRestarts == 1        \* stop() then start() rounds in one behaviour
MaxRetries == 2         \* the largest configured HttpOutputOptions.retries
MaxBatch == 3           \* the largest configured HttpOutputOptions.batchSize
MaxOutputs == 3         \* HttpOutputPlugin.output calls in one behaviour

Paths == {"f", "g"}               \* the JSONL files
Ignored == {"h"}                 \* a file of another kind in the directory
Written == {"f"}                 \* the file the writer works on
Settled == <<"1", "n">>          \* what the other file holds, unchanged
Bytes == {"1", "n"}
ParseBytes == {"1", "{", " ", "n"}   \* bytes of a file with malformed lines
InfoLine == <<"i">>                  \* the text {"level":"info"}
ErrorLine == <<"e">>                 \* the text {"level":"error"}

None == "-"                          \* an absent pipeline.filter
FilterNames == {"A", "B", "M"}       \* names a configuration may use
RegisteredFilters == {"A", "B"}      \* config.plugins.filters
OutputNames == {"X", "Y", "Z"}
RegisteredOutputs == {"X", "Y"}      \* config.plugins.outputs
PipelineNames == {"p", "q"}
FilterLists == {<<>>, <<"A", "B">>}  \* values of pipeline.filters

\* ------------------------------------------------------------ constants
LineEstimateDivisor == 100

VARIABLES
  files,           \* the file system: path -> [exists, data]
  filePositions,   \* JsonlStreamProcessor.filePositions (a Map)
  isProcessing,    \* JsonlStreamProcessor.isProcessing
  enableBuffering, \* JsonlStreamProcessor.enableBuffering
  passes,          \* the processFile invocations, in order of acceptance
  plog,            \* what the processor emitted / dispatched, in order
  rejected,        \* history: paths of the processFile calls that hit the guard
  cuts,            \* history: path -> number of truncations and deletions
  debounceTimers,  \* FileWatcher.debounceTimers: path -> type of the event
  filters,         \* ProcessingPipelineManager.filters: the registered names
  outputs,         \* ProcessingPipelineManager.outputs: the registered names
  pipelines,       \* ProcessingPipelineManager.pipelines
  globalFilters,   \* ProcessingPipelineManager.globalFilters
  globalOutputs,   \* ProcessingPipelineManager.globalOutputs
  record,          \* the record given to the last processRecord call: what
                   \* each registered plugin does with it
  handled,         \* number of processRecord calls so far
  report,          \* what that call did: calls (the plugin invocations, in
                   \* order), emitted (the events, in order) and results
                   \* (the list of its pipeline-results event)
  isRunning,       \* JsonlStreamServer.isRunning
  watcher,         \* FileWatcher.watcher is not null
  rootExists,      \* the watch directory exists
  slog,            \* history: the start/stop calls with what they emitted,
                   \* the raw watcher events and the file-events, in order
  filterOf,        \* ProcessingPipelineManager.filters: name -> plugin object
  outputOf,        \* ProcessingPipelineManager.outputs: name -> plugin object
  regs,            \* history: the addFilter / addOutput calls, in order
  doc,             \* the options of the configuration document on disk
                   \* (a sequence of one, empty if there is no document)
  config,          \* the ServerConfig that ConfigLoader.loadConfig returned
                   \* (a sequence of one, empty before the call)
  built,           \* a JsonlStreamServer has been constructed from config
  retries,         \* HttpOutputPlugin.retries
  batchSize,       \* HttpOutputPlugin.batchSize
  batch,           \* HttpOutputPlugin.batch: the records waiting, in order
  batchTimer,      \* HttpOutputPlugin.batchTimer: "null", or the handle of a
                   \* timer that is "pending" or has "fired"
  sends,           \* the sendRequest calls, in order: their records, loop
                   \* counter and state, and (history) who called and how
                   \* many requests were made, one of them OK or not
  arrived,         \* history: number of output() calls (record r is the r-th)
  exited           \* the process has exited

readerVars == <<files, filePositions, isProcessing, enableBuffering,
                passes, plog, rejected, cuts>>

watcherVars == <<debounceTimers>>

registryVars == <<filterOf, outputOf, regs>>

loaderVars == <<doc, config, built>>

httpVars == <<retries, batchSize, batch, batchTimer, sends, arrived, exited>>

configVars == <<filters, outputs, pipelines, globalFilters, globalOutputs,
                registryVars, loaderVars, httpVars>>

pipeVars == <<configVars, record, handled, report>>

lifeVars == <<isRunning, watcher, rootExists, slog>>

vars == <<readerVars, watcherVars, pipeVars, lifeVars>>

\* ------------------------------------------------------------- helpers
Min(S) == CHOOSE x \in S : \A y \in S : x <= y

Max(S) == CHOOSE x \in S : \A y \in S : x >= y

\* Map.get(filePath) || 0
GetPos(fp, p) == IF p \in DOMAIN fp THEN fp[p] ELSE 0

\* Map.set(filePath, v)
SetPos(fp, p, v) == [q \in (DOMAIN fp) \cup {p} |-> IF q = p THEN v ELSE fp[q]]

\* Map.delete(filePath)
DelPos(fp, p) == [q \in (DOMAIN fp) \ {p} |-> fp[q]]

\* readline over the bytes data[s..]: every line-feed ends a line; what is
\* left after the last line-feed is emitted as a final line when the stream
\* closes, if it is not empty.  off is the absolute byte offset of the line.
RECURSIVE LinesFrom(_, _, _)
LinesFrom(data, s, base) ==
  IF s > Len(data) THEN <<>>
  ELSE LET nl == {i \in s..Len(data) : data[i] = "n"} IN
       IF nl = {}
       THEN << [off |-> base + s - 1, text |-> SubSeq(data, s, Len(data)),
                term |-> FALSE] >>
       ELSE << [off |-> base + s - 1, text |-> SubSeq(data, s, Min(nl) - 1),
                term |-> TRUE] >>
            \o LinesFrom(data, Min(nl) + 1, base)

\* createReadStream(filePath, {start}) piped into readline
ReadLines(data, start) ==
  LinesFrom(SubSeq(data, start + 1, Len(data)), 1, start)

\* line.trim() === ''
IsBlank(text) == \A i \in 1..Len(text) : text[i] = " "

\* JSON.parse(line) succeeds
IsJson(text) ==
  \/ text \in {InfoLine, ErrorLine}
  \/ \E a, b \in 1..Len(text) :
       /\ a <= b
       /\ \A i \in 1..Len(text) :
            text[i] = IF a <= i /\ i <= b THEN "1" ELSE " "

\* getLineNumberFromPosition
getLineNumberFromPosition(position) ==
  IF position = 0 THEN 0 ELSE position \div LineEstimateDivisor

InFlight == {i \in 1..Len(passes) : passes[i].pc # "done"}

Ev(kind, i, p) ==
  [kind |-> kind, pass |-> i, path |-> p, off |-> 0, text |-> <<>>,
   lineNumber |-> 0, term |-> TRUE]

\* history: a change of file p ends the "file is as the pass found it" mark
\* of the passes that found p truncated
Stale(ps, p) ==
  [i \in 1..Len(ps) |-> IF ps[i].path = p THEN [ps[i] EXCEPT !.intact = FALSE]
                                          ELSE ps[i]]

\* ------------------------------------------------------------ the writer
\* (each operator below gives the next value of every reader variable)
WriterCreate(p) ==
  /\ ~files[p].exists
  /\ files' = [files EXCEPT ![p] = [exists |-> TRUE, data |-> <<>>]]
  /\ passes' = Stale(passes, p)
  /\ UNCHANGED <<filePositions, isProcessing, enableBuffering, plog,
                 rejected, cuts>>

WriterAppend(p, b) ==
  /\ files[p].exists
  /\ Len(files[p].data) < MaxFileSize
  /\ files' = [files EXCEPT ![p].data = Append(@, b)]
  /\ passes' = Stale(passes, p)
  /\ UNCHANGED <<filePositions, isProcessing, enableBuffering, plog,
                 rejected, cuts>>

WriterTruncate(p, k) ==
  /\ files[p].exists
  /\ cuts[p] < MaxCuts
  /\ k < Len(files[p].data)
  /\ files' = [files EXCEPT ![p].data = SubSeq(@, 1, k)]
  /\ passes' = Stale(passes, p)
  /\ cuts' = [cuts EXCEPT ![p] = @ + 1]
  /\ UNCHANGED <<filePositions, isProcessing, enableBuffering, plog, rejected>>

WriterDelete(p) ==
  /\ files[p].exists
  /\ cuts[p] < MaxCuts
  /\ files' = [files EXCEPT ![p] = [exists |-> FALSE, data |-> <<>>]]
  /\ passes' = Stale(passes, p)
  /\ cuts' = [cuts EXCEPT ![p] = @ + 1]
  /\ UNCHANGED <<filePositions, isProcessing, enableBuffering, plog, rejected>>

\* ------------------------------------------- JsonlStreamProcessor.processFile
\* if (this.isProcessing) return
\* a processor without the isProcessing guard
Busy_Never == FALSE

Busy == isProcessing

NewPass(p) ==
  [path |-> p, pc |-> IF enableBuffering THEN "stat" ELSE "open",
   mode |-> IF enableBuffering THEN "buffered" ELSE "complete",
   size |-> 0, start |-> 0, lines |-> <<>>, lineNumber |-> 0,
   intact |-> FALSE, trunc |-> FALSE, gen |-> -1,
   was |-> filePositions]    \* history: the offsets when the pass began

\* processFile up to its first await
ProcessFile(p) ==
  IF Busy
  THEN /\ rejected' = rejected \cup {p}
       /\ UNCHANGED <<files, filePositions, isProcessing, enableBuffering,
                      passes, plog, cuts>>
  ELSE /\ Len(passes) < MaxPasses
       /\ isProcessing' = TRUE
       /\ passes' = Append(passes, NewPass(p))
       /\ plog' = Append(plog, Ev("processing-start", Len(passes) + 1, p))
       /\ UNCHANGED <<files, filePositions, enableBuffering, rejected, cuts>>

\* a processFile whose failure is not caught
Fail_Uncaught(i) ==
  /\ plog' = Append(plog, Ev("unhandled", i, passes[i].path))
  /\ isProcessing' = FALSE

\* a processFile without its finally block
Fail_KeepGuard(i) ==
  /\ plog' = Append(plog, Ev("processing-error", i, passes[i].path))
  /\ isProcessing' = isProcessing

\* the catch and finally blocks of processFile
Fail(i) ==
  /\ plog' = Append(plog, Ev("processing-error", i, passes[i].path))
  /\ isProcessing' = FALSE

\* the end of the try block and the finally block of processFile
Complete(i) ==
  /\ plog' = Append(plog, Ev("processing-complete", i, passes[i].path))
  /\ isProcessing' = FALSE

\* a reader that never finds a file unchanged
NothingNew_Never(size, last) == FALSE

\* if (fileStats.size === lastPosition)
NothingNew(size, last) == size = last

\* processFileWithBuffering: the stat, and the three-way branch on the size
\* (history: gen is the number of cuts the file had when the stat saw it)
Stat(i) ==
  LET p    == passes[i].path
      size == Len(files[p].data)
      last == GetPos(filePositions, p)
  IN
  /\ passes[i].pc = "stat"
  /\ IF ~files[p].exists
     THEN /\ Fail(i)
          /\ passes' = [passes EXCEPT ![i].pc = "done"]
          /\ UNCHANGED filePositions
     ELSE IF size < last
     THEN /\ filePositions' = SetPos(filePositions, p, 0)
          /\ passes' = [passes EXCEPT ![i].pc = "open", ![i].mode = "complete",
                                      ![i].size = size, ![i].start = last,
                                      ![i].trunc = TRUE, ![i].intact = TRUE,
                                      ![i].gen = cuts[p]]
          /\ UNCHANGED <<plog, isProcessing>>
     ELSE IF NothingNew(size, last)
     THEN /\ Complete(i)
          /\ passes' = [passes EXCEPT ![i].pc = "done", ![i].size = size,
                                      ![i].start = last, ![i].gen = cuts[p]]
          /\ UNCHANGED filePositions
     ELSE /\ passes' = [passes EXCEPT ![i].pc = "open", ![i].size = size,
                                      ![i].start = last, ![i].gen = cuts[p]]
          /\ UNCHANGED <<filePositions, plog, isProcessing>>
  /\ UNCHANGED <<files, enableBuffering, rejected, cuts>>

\* createReadStream + readline: the stream reads to the end of the file as it
\* is when the read happens
Open(i) ==
  LET p     == passes[i].path
      start == IF passes[i].mode = "buffered" THEN passes[i].start ELSE 0
  IN
  /\ passes[i].pc = "open"
  /\ IF ~files[p].exists
     THEN /\ Fail(i)
          /\ passes' = [passes EXCEPT ![i].pc = "done"]
     ELSE /\ passes' = [passes EXCEPT
               ![i].pc = "lines",
               ![i].lines = ReadLines(files[p].data, start),
               ![i].lineNumber = IF passes[i].mode = "buffered"
                                 THEN getLineNumberFromPosition(start) ELSE 0]
          /\ UNCHANGED <<plog, isProcessing>>
  /\ UNCHANGED <<files, filePositions, enableBuffering, rejected, cuts>>

\* a loop that a line failing JSON.parse ends
Line_StopOnError(i) ==
  LET p  == passes[i].path
      l  == Head(passes[i].lines)
      n  == passes[i].lineNumber + 1
      e  == [kind |-> IF IsJson(l.text) THEN "record" ELSE "parse-error",
             pass |-> i, path |-> p, off |-> l.off, text |-> l.text,
             lineNumber |-> n, term |-> l.term]
  IN
  /\ passes[i].pc = "lines"
  /\ passes[i].lines # <<>>
  /\ passes' = [passes EXCEPT
                  ![i].lines = IF IsBlank(l.text) \/ IsJson(l.text)
                               THEN Tail(@) ELSE <<>>,
                  ![i].lineNumber = n]
  /\ plog' = IF IsBlank(l.text) THEN plog ELSE Append(plog, e)
  /\ UNCHANGED <<files, filePositions, isProcessing, enableBuffering,
                 rejected, cuts>>

\* one iteration of the for-await loop over the lines
Line(i) ==
  LET p  == passes[i].path
      l  == Head(passes[i].lines)
      n  == passes[i].lineNumber + 1
      e  == [kind |-> IF IsJson(l.text) THEN "record" ELSE "parse-error",
             pass |-> i, path |-> p, off |-> l.off, text |-> l.text,
             lineNumber |-> n, term |-> l.term]
  IN
  /\ passes[i].pc = "lines"
  /\ passes[i].lines # <<>>
  /\ passes' = [passes EXCEPT ![i].lines = Tail(@), ![i].lineNumber = n]
  /\ plog' = IF IsBlank(l.text) THEN plog ELSE Append(plog, e)
  /\ UNCHANGED <<files, filePositions, isProcessing, enableBuffering,
                 rejected, cuts>>

\* a pass that ends by storing an offset one byte past the size it saw
Finish_StorePastEnd(i) ==
  LET p == passes[i].path IN
  /\ passes[i].pc = "lines"
  /\ passes[i].lines = <<>>
  /\ filePositions' = IF passes[i].mode = "buffered"
                      THEN SetPos(filePositions, p, passes[i].size + 1)
                      ELSE filePositions
  /\ Complete(i)
  /\ passes' = [passes EXCEPT ![i].pc = "done"]
  /\ UNCHANGED <<files, enableBuffering, rejected, cuts>>

\* a pass that ends by storing the size of the file in either mode
Finish_StoreAlways(i) ==
  LET p == passes[i].path IN
  /\ passes[i].pc = "lines"
  /\ passes[i].lines = <<>>
  /\ filePositions' = SetPos(filePositions, p, Len(files[p].data))
  /\ Complete(i)
  /\ passes' = [passes EXCEPT ![i].pc = "done"]
  /\ UNCHANGED <<files, enableBuffering, rejected, cuts>>

\* the loop has ended: processFileWithBuffering stores the offset, a
\* processFileComplete read stores nothing
Finish(i) ==
  LET p == passes[i].path IN
  /\ passes[i].pc = "lines"
  /\ passes[i].lines = <<>>
  /\ filePositions' = IF passes[i].mode = "buffered"
                      THEN SetPos(filePositions, p, passes[i].size)
                      ELSE filePositions
  /\ Complete(i)
  /\ passes' = [passes EXCEPT ![i].pc = "done"]
  /\ UNCHANGED <<files, enableBuffering, rejected, cuts>>

PassStep(i) == Stat(i) \/ Open(i) \/ Line(i) \/ Finish(i)

\* JsonlStreamProcessor.resetFilePosition
resetFilePosition(p) ==
  /\ filePositions' = DelPos(filePositions, p)
  /\ UNCHANGED <<files, isProcessing, enableBuffering, passes, plog,
                 rejected, cuts>>

\* ------------------------------------------------------------ FileWatcher
\* FileWatcher.handleFileEvent for a .jsonl path: restart the path's timer
\* path.extname of the names under the watch directory
Extname(p) ==
  CASE p = "f" -> ".jsonl"
    [] p = "g" -> ".JSONL"
    [] OTHER -> ".txt"

ToLowerCase(ext) == IF ext = ".JSONL" THEN ".jsonl" ELSE ext

\* a watcher that takes every path for a JSONL file
IsJsonl_Any(p) == TRUE

\* extname(path).toLowerCase() !== '.jsonl'
IsJsonl(p) == ToLowerCase(Extname(p)) = ".jsonl"

\* a watcher that keeps the pending timer of the path as it is
RawEvent_KeepFirst(type, p) ==
  debounceTimers' = IF p \in DOMAIN debounceTimers THEN debounceTimers
                    ELSE SetPos(debounceTimers, p, type)

RawEvent(type, p) ==
  debounceTimers' = IF IsJsonl(p) THEN SetPos(debounceTimers, p, type)
                    ELSE debounceTimers

\* the debounce timer of p fires: the file-event is emitted and
\* JsonlStreamServer.handleFileEvent runs up to its first await
TimerFire(p) ==
  /\ p \in DOMAIN debounceTimers
  /\ debounceTimers' = DelPos(debounceTimers, p)
  /\ IF debounceTimers[p] = "unlink" THEN resetFilePosition(p)
     ELSE IF ~files[p].exists THEN UNCHANGED readerVars
     ELSE ProcessFile(p)

\* ------------------------------------------------------------------ Spec
\* the processor driven by arbitrary callers, over files that only grow
InitReader ==
  /\ files = [p \in Paths |-> IF p \in Written
                                THEN [exists |-> FALSE, data |-> <<>>]
                                ELSE [exists |-> TRUE, data |-> Settled]]
  /\ filePositions = <<>>
  /\ isProcessing = FALSE
  /\ enableBuffering \in BOOLEAN
  /\ passes = <<>>
  /\ plog = <<>>
  /\ rejected = {}
  /\ cuts = [p \in Paths |-> 0]

\* the plugin objects of the configuration (object 0 under each name)
Instances(names) == [n \in names |-> 0]

\* a value a document or a ServerConfig does not hold
Absent == "absent"

\* a server made from a ServerConfig that was written in code
InitLoader ==
  /\ doc = <<>>
  /\ config = <<>>
  /\ built = TRUE

\* an HttpOutputPlugin made with the defaults of its constructor
InitHttp ==
  /\ retries = 3
  /\ batchSize = 1
  /\ batch = <<>>
  /\ batchTimer = "null"
  /\ sends = <<>>
  /\ arrived = 0
  /\ exited = FALSE

InitRegistry ==
  /\ filterOf = Instances(filters)
  /\ outputOf = Instances(outputs)
  /\ regs = <<>>
  /\ InitLoader
  /\ InitHttp

\* a ProcessingPipelineManager after construction, nothing registered
InitManager ==
  /\ filters = {}
  /\ outputs = {}
  /\ pipelines = <<>>
  /\ globalFilters = <<>>
  /\ globalOutputs = <<>>
  /\ InitRegistry

NoRecord == [f |-> <<>>, o |-> <<>>]

InitReport ==
  /\ record = NoRecord
  /\ handled = 0
  /\ report = [calls |-> <<>>, emitted |-> <<>>, results |-> <<>>]

\* a JsonlStreamServer after construction: not started
InitLife ==
  /\ isRunning = FALSE
  /\ watcher = FALSE
  /\ rootExists = TRUE
  /\ slog = <<>>

\* a JsonlStreamServer after a successful start()
Started ==
  /\ isRunning = TRUE
  /\ watcher = TRUE
  /\ rootExists = TRUE
  /\ slog = <<>>

Init ==
  /\ InitReader
  /\ debounceTimers = <<>>
  /\ InitManager
  /\ InitReport
  /\ InitLife

Grow ==
  \/ \E p \in Written : WriterCreate(p)
  \/ \E p \in Written, b \in Bytes : WriterAppend(p, b)

Cut ==
  \/ \E p \in Written, k \in 0..MaxFileSize : WriterTruncate(p, k)
  \/ \E p \in Written : WriterDelete(p)

Call == \E p \in Paths : ProcessFile(p)

Pass == \E i \in 1..Len(passes) : PassStep(i)

Next ==
  \/ Grow /\ UNCHANGED <<watcherVars, pipeVars, lifeVars>>
  \/ Call /\ UNCHANGED <<watcherVars, pipeVars, lifeVars>>
  \/ Pass /\ UNCHANGED <<watcherVars, pipeVars, lifeVars>>

Spec == Init /\ [][Next]_vars

\* the processor over a file that may also be truncated or deleted
CallWritten == \E p \in Written : ProcessFile(p)

NextCut ==
  \/ Grow /\ UNCHANGED <<watcherVars, pipeVars, lifeVars>>
  \/ Cut /\ UNCHANGED <<watcherVars, pipeVars, lifeVars>>
  \/ CallWritten /\ UNCHANGED <<watcherVars, pipeVars, lifeVars>>
  \/ Pass /\ UNCHANGED <<watcherVars, pipeVars, lifeVars>>

SpecCut == Init /\ [][NextCut]_vars

\* the processor with the dispatch of a record in two steps: the call of
\* processRecord, and the end of its await
\* a loop that does not await processRecord
Dispatch_NoAwait(i) ==
  LET l == Head(passes[i].lines) IN
  /\ passes[i].pc = "lines"
  /\ passes[i].lines # <<>>
  /\ IsJson(l.text)
  /\ passes' = [passes EXCEPT ![i].lines = Tail(@),
                              ![i].lineNumber = passes[i].lineNumber + 1]
  /\ plog' = Append(plog, [kind |-> "dispatch", pass |-> i,
                           path |-> passes[i].path, off |-> l.off,
                           text |-> l.text,
                           lineNumber |-> passes[i].lineNumber + 1,
                           term |-> l.term])
  /\ UNCHANGED <<files, filePositions, isProcessing, enableBuffering,
                 rejected, cuts>>

\* JSON.parse succeeded: await this.processRecord(record, ...) begins
Dispatch(i) ==
  LET l == Head(passes[i].lines) IN
  /\ passes[i].pc = "lines"
  /\ passes[i].lines # <<>>
  /\ IsJson(l.text)
  /\ passes' = [passes EXCEPT ![i].pc = "plugins"]
  /\ plog' = Append(plog, [kind |-> "dispatch", pass |-> i,
                           path |-> passes[i].path, off |-> l.off,
                           text |-> l.text,
                           lineNumber |-> passes[i].lineNumber + 1,
                           term |-> l.term])
  /\ UNCHANGED <<files, filePositions, isProcessing, enableBuffering,
                 rejected, cuts>>

\* the await ends: every plugin invocation for the record has completed
Return(i) ==
  LET l == Head(passes[i].lines) IN
  /\ passes[i].pc = "plugins"
  /\ passes' = [passes EXCEPT ![i].pc = "lines", ![i].lines = Tail(@),
                              ![i].lineNumber = passes[i].lineNumber + 1]
  /\ plog' = Append(plog, [kind |-> "record", pass |-> i,
                           path |-> passes[i].path, off |-> l.off,
                           text |-> l.text,
                           lineNumber |-> passes[i].lineNumber + 1,
                           term |-> l.term])
  /\ UNCHANGED <<files, filePositions, isProcessing, enableBuffering,
                 rejected, cuts>>

\* a blank line, or a line that fails JSON.parse
Skip(i) ==
  /\ passes[i].pc = "lines"
  /\ passes[i].lines # <<>>
  /\ ~IsJson(Head(passes[i].lines).text)
  /\ Line(i)

PassStepSeq(i) ==
  Stat(i) \/ Open(i) \/ Skip(i) \/ Dispatch(i) \/ Return(i) \/ Finish(i)

PassSeq == \E i \in 1..Len(passes) : PassStepSeq(i)

NextSeq ==
  \/ Grow /\ UNCHANGED <<watcherVars, pipeVars, lifeVars>>
  \/ Call /\ UNCHANGED <<watcherVars, pipeVars, lifeVars>>
  \/ PassSeq /\ UNCHANGED <<watcherVars, pipeVars, lifeVars>>

SpecSeq == Init /\ [][NextSeq]_vars

\* the processor over a file that holds malformed and blank lines
Contents(n) == UNION {[1..k -> ParseBytes] : k \in 0..n}

InitParse ==
  /\ \E d \in Contents(MaxLineBytes) :
       files = [p \in Paths |->
                  [exists |-> TRUE, data |-> IF p \in Written THEN d ELSE Settled]]
  /\ filePositions = <<>>
  /\ isProcessing = FALSE
  /\ enableBuffering \in BOOLEAN
  /\ passes = <<>>
  /\ plog = <<>>
  /\ rejected = {}
  /\ cuts = [p \in Paths |-> 0]
  /\ debounceTimers = <<>>
  /\ InitManager
  /\ InitReport
  /\ InitLife

NextParse ==
  \/ CallWritten /\ UNCHANGED <<watcherVars, pipeVars, lifeVars>>
  \/ Pass /\ UNCHANGED <<watcherVars, pipeVars, lifeVars>>

SpecParse == InitParse /\ [][NextParse]_vars

\* the processor over a file with malformed lines that may be deleted under
\* a pass
NextOutcome ==
  \/ CallWritten /\ UNCHANGED <<watcherVars, pipeVars, lifeVars>>
  \/ Pass /\ UNCHANGED <<watcherVars, pipeVars, lifeVars>>
  \/ \E p \in Written :
       WriterDelete(p) /\ UNCHANGED <<watcherVars, pipeVars, lifeVars>>

SpecOutcome == InitParse /\ [][NextOutcome]_vars

\* the processor, with offsets left by earlier passes, over a file that may
\* be deleted under a pass
InitFail ==
  /\ \E d \in UNION {[1..k -> Bytes] : k \in 0..MaxFileSize} :
       files = [p \in Paths |->
                  [exists |-> TRUE, data |-> IF p \in Written THEN d ELSE Settled]]
  /\ \E n \in 0..MaxFileSize :
       filePositions = IF n = 0 THEN <<>> ELSE SetPos(<<>>, "f", n)
  /\ isProcessing = FALSE
  /\ enableBuffering \in BOOLEAN
  /\ passes = <<>>
  /\ plog = <<>>
  /\ rejected = {}
  /\ cuts = [p \in Paths |-> 0]
  /\ debounceTimers = <<>>
  /\ InitManager
  /\ InitReport
  /\ InitLife

Delete == \E p \in Written : WriterDelete(p)

NextFail ==
  \/ Delete /\ UNCHANGED <<watcherVars, pipeVars, lifeVars>>
  \/ CallWritten /\ UNCHANGED <<watcherVars, pipeVars, lifeVars>>
  \/ Pass /\ UNCHANGED <<watcherVars, pipeVars, lifeVars>>

SpecFail == InitFail /\ [][NextFail]_vars

\* the server: every change of a file raises a watcher event, and only the
\* debounce timers call processFile
\* (chokidar reports the files it finds at start as added)
InitLive ==
  /\ InitReader
  /\ debounceTimers = [p \in {q \in Paths : files[q].exists} |-> "add"]
  /\ InitManager
  /\ InitReport
  /\ Started

WatchedCreate(p) == WriterCreate(p) /\ RawEvent("add", p)

WatchedAppend(p, b) == WriterAppend(p, b) /\ RawEvent("change", p)

NextLive ==
  \/ \E p \in Written : WatchedCreate(p) /\ UNCHANGED <<pipeVars, lifeVars>>
  \/ \E p \in Written, b \in Bytes : WatchedAppend(p, b) /\ UNCHANGED <<pipeVars, lifeVars>>
  \/ \E p \in Paths : TimerFire(p) /\ UNCHANGED <<pipeVars, lifeVars>>
  \/ Pass /\ UNCHANGED <<watcherVars, pipeVars, lifeVars>>

\* timers fire, and the steps of a pass (I/O, plugins) terminate
SpecLive ==
  /\ InitLive /\ [][NextLive]_vars
  /\ \A p \in Paths : WF_vars(TimerFire(p) /\ UNCHANGED <<pipeVars, lifeVars>>)
  /\ WF_vars(Pass /\ UNCHANGED <<watcherVars, pipeVars, lifeVars>>)

\* the server over a file that is deleted and created again
WatchedDelete(p) == WriterDelete(p) /\ RawEvent("unlink", p)

NextRecreate ==
  \/ \E p \in Written : WatchedCreate(p) /\ UNCHANGED <<pipeVars, lifeVars>>
  \/ \E p \in Written, b \in Bytes : WatchedAppend(p, b) /\ UNCHANGED <<pipeVars, lifeVars>>
  \/ \E p \in Written : WatchedDelete(p) /\ UNCHANGED <<pipeVars, lifeVars>>
  \/ \E p \in Paths : TimerFire(p) /\ UNCHANGED <<pipeVars, lifeVars>>
  \/ Pass /\ UNCHANGED <<watcherVars, pipeVars, lifeVars>>

\* (offsets are kept in buffered mode only)
InitRecreate == InitLive /\ enableBuffering

SpecRecreate == InitRecreate /\ [][NextRecreate]_vars

\* ================================================= start() and stop()
EventTypes == {"add", "change", "unlink"}

\* if (this.isRunning)
\* a server that does not look at isRunning
Running_Never == FALSE

Running == isRunning

\* if (!existsSync(this.config.watchDirectory))
\* a server that does not look for the watch directory
RootMissing_Unchecked == FALSE

RootMissing == ~rootExists

\* history: "at" is the number of processor events emitted before the call
CallEntry(op, result, events) ==
  [op |-> op, was |-> isRunning, root |-> rootExists, result |-> result,
   events |-> events, at |-> Len(plog)]

WatchEntry(op, type, p) == [op |-> op, type |-> type, path |-> p]

\* FileWatcher.start: chokidar.watch is called unless a watcher exists or
\* the directory is missing
Watches == ~watcher /\ rootExists

FileWatcherStart == watcher' = (watcher \/ rootExists)

\* a watcher whose stop leaves the timers pending
FileWatcherStop_KeepTimers ==
  IF watcher
  THEN watcher' = FALSE /\ UNCHANGED debounceTimers
  ELSE UNCHANGED <<watcher, debounceTimers>>

\* FileWatcher.stop
FileWatcherStop ==
  IF watcher
  THEN watcher' = FALSE /\ debounceTimers' = <<>>
  ELSE UNCHANGED <<watcher, debounceTimers>>

\* JsonlStreamServer.start
ServerStart ==
  /\ Len(slog) < MaxLog
  /\ IF Running
     THEN /\ slog' = Append(slog, CallEntry("start", "noop", <<>>))
          /\ UNCHANGED <<isRunning, watcher>>
     ELSE IF RootMissing
     THEN /\ slog' = Append(slog, CallEntry("start", "threw", <<>>))
          /\ UNCHANGED <<isRunning, watcher>>
     ELSE /\ isRunning' = TRUE
          /\ FileWatcherStart
          /\ slog' = Append(slog, CallEntry("start", "ok",
                       (IF Watches THEN <<"watcher-created">> ELSE <<>>)
                         \o <<"started">>))
  /\ UNCHANGED <<rootExists, debounceTimers, readerVars>>

\* a server that drops the passes in flight when it stops
ServerStop_Abort ==
  /\ Len(slog) < MaxLog
  /\ isRunning' = FALSE
  /\ FileWatcherStop
  /\ slog' = Append(slog, CallEntry("stop", (IF Running THEN "ok" ELSE "noop"),
                                    <<>>))
  /\ passes' = [i \in 1..Len(passes) |-> [passes[i] EXCEPT !.pc = "done"]]
  /\ isProcessing' = FALSE
  /\ UNCHANGED <<rootExists, files, filePositions, enableBuffering, plog,
                 rejected, cuts>>

\* JsonlStreamServer.stop
ServerStop ==
  /\ Len(slog) < MaxLog
  /\ IF ~Running
     THEN /\ slog' = Append(slog, CallEntry("stop", "noop", <<>>))
          /\ UNCHANGED <<isRunning, watcher, debounceTimers>>
     ELSE /\ isRunning' = FALSE
          /\ FileWatcherStop
          /\ slog' = Append(slog, CallEntry("stop", "ok",
                       (IF watcher THEN <<"watcher-closed">> ELSE <<>>)
                         \o <<"stopped">>))
  /\ UNCHANGED <<rootExists, readerVars>>

\* the watch directory is removed or created while nothing watches it
RootChange ==
  /\ ~watcher
  /\ rootExists' = ~rootExists
  /\ UNCHANGED <<isRunning, watcher, slog, debounceTimers, readerVars>>

\* an open watcher reports an event of a .jsonl path
Raw(type, p) ==
  /\ watcher
  /\ Len(slog) < MaxLog
  /\ RawEvent(type, p)
  /\ slog' = Append(slog, WatchEntry("raw", type, p))
  /\ UNCHANGED <<isRunning, watcher, rootExists, readerVars>>

\* a debounce timer fires and the file-event is handled
FileEvent(p) ==
  /\ Len(slog) < MaxLog
  /\ TimerFire(p)
  /\ slog' = Append(slog, WatchEntry("file-event", debounceTimers[p], p))
  /\ UNCHANGED <<isRunning, watcher, rootExists>>

NextServer ==
  \/ ServerStart /\ UNCHANGED pipeVars
  \/ ServerStop /\ UNCHANGED pipeVars
  \/ RootChange /\ UNCHANGED pipeVars
  \/ \E t \in EventTypes, p \in Paths \cup Ignored :
       Raw(t, p) /\ UNCHANGED pipeVars
  \/ \E p \in Paths : FileEvent(p) /\ UNCHANGED pipeVars
  \/ Pass /\ UNCHANGED <<watcherVars, pipeVars, lifeVars>>

SpecServer == Init /\ [][NextServer]_vars

\* ------------------------------------------------ stop during a pass
\* chokidar reports a change only while the watcher is open
Seen(type, p) ==
  IF watcher THEN RawEvent(type, p) ELSE UNCHANGED debounceTimers

NextStop ==
  \/ \E p \in Written :
       WriterCreate(p) /\ Seen("add", p) /\ UNCHANGED <<pipeVars, lifeVars>>
  \/ \E p \in Written, b \in Bytes :
       WriterAppend(p, b) /\ Seen("change", p)
         /\ UNCHANGED <<pipeVars, lifeVars>>
  \/ \E p \in Paths : TimerFire(p) /\ UNCHANGED <<pipeVars, lifeVars>>
  \/ Pass /\ UNCHANGED <<watcherVars, pipeVars, lifeVars>>
  \/ Running /\ ServerStop /\ UNCHANGED pipeVars

\* the steps of a pass (I/O, plugins) terminate, stopped server or not
SpecStop ==
  /\ InitLive /\ [][NextStop]_vars
  /\ WF_vars(Pass /\ UNCHANGED <<watcherVars, pipeVars, lifeVars>>)

\* ------------------------------------------------ stop, then start again
\* ignoreInitial: false: an open watcher reports the files it finds
InitialAdd(p) ==
  /\ watcher
  /\ files[p].exists
  /\ RawEvent("add", p)
  /\ UNCHANGED readerVars

InitRestart == InitLive /\ enableBuffering

NextRestart ==
  \/ \E p \in Written :
       WriterCreate(p) /\ Seen("add", p) /\ UNCHANGED <<pipeVars, lifeVars>>
  \/ \E p \in Written, b \in Bytes :
       WriterAppend(p, b) /\ Seen("change", p)
         /\ UNCHANGED <<pipeVars, lifeVars>>
  \/ \E p \in Paths : InitialAdd(p) /\ UNCHANGED <<pipeVars, lifeVars>>
  \/ \E p \in Paths : TimerFire(p) /\ UNCHANGED <<pipeVars, lifeVars>>
  \/ Pass /\ UNCHANGED <<watcherVars, pipeVars, lifeVars>>
  \/ Running /\ Len(slog) < 2 * MaxRestarts /\ ServerStop
       /\ UNCHANGED pipeVars
  \/ ~Running /\ ServerStart /\ UNCHANGED pipeVars

SpecRestart == InitRestart /\ [][NextRestart]_vars

\* ------------------------------------------------ tail from now
\* this.filePositions.set(filePath, stats.size)
SeedAt(size) == size

\* history: the seeding is entered in plog with the size it recorded
Seeds == {j \in 1..Len(plog) : plog[j].kind = "position-initialized"}

\* initializeFilePosition: the stat and the Map.set; a failing stat is
\* caught and logged
initializeFilePosition(p) ==
  /\ Cardinality(Seeds) < MaxSeeds
  /\ IF files[p].exists
     THEN /\ filePositions' = SetPos(filePositions, p,
                                     SeedAt(Len(files[p].data)))
          /\ plog' = Append(plog, [Ev("position-initialized", 0, p)
                                    EXCEPT !.off = Len(files[p].data)])
     ELSE UNCHANGED <<filePositions, plog>>
  /\ UNCHANGED <<files, isProcessing, enableBuffering, passes, rejected, cuts>>

\* the writer appends to the file that was there at start-up
TailAppend(p, b) ==
  /\ files[p].exists
  /\ Len(files[p].data) < MaxTailSize
  /\ files' = [files EXCEPT ![p].data = Append(@, b)]
  /\ passes' = Stale(passes, p)
  /\ UNCHANGED <<filePositions, isProcessing, enableBuffering, plog,
                 rejected, cuts>>

InitTail == Init /\ enableBuffering

NextTail ==
  \/ \E p \in Paths :
       initializeFilePosition(p)
         /\ UNCHANGED <<watcherVars, pipeVars, lifeVars>>
  \/ \E p \in Paths, b \in Bytes :
       TailAppend(p, b) /\ UNCHANGED <<watcherVars, pipeVars, lifeVars>>
  \/ \E p \in Paths :
       files[p].exists /\ ProcessFile(p)
         /\ UNCHANGED <<watcherVars, pipeVars, lifeVars>>
  \/ Pass /\ UNCHANGED <<watcherVars, pipeVars, lifeVars>>

SpecTail == InitTail /\ [][NextTail]_vars

\* ============================================== ProcessingPipelineManager
\* A record is given by what each registered plugin does with it.
FilterOutcomes == {"true", "false", "throw"}
OutputOutcomes == {"ok", "throw"}
Records == [f : [RegisteredFilters -> FilterOutcomes],
            o : [RegisteredOutputs -> OutputOutcomes]]

Invocation(stage, k, n, outcome) ==
  [stage |-> stage, idx |-> k, name |-> n, outcome |-> outcome]

Event(type, k, n) == [type |-> type, idx |-> k, name |-> n]

\* applyGlobalFilters, from the i-th name on
Passed(c, r) == [pass |-> r.pass, calls |-> <<c>> \o r.calls]

\* a manager that drops the record at a name without a plugin
SkipMissing_Reject(r) == [pass |-> FALSE, calls |-> <<>>]

\* if (!filter) { console.warn(...); continue; }
SkipMissing(r) == r

RECURSIVE GlobalFiltersFrom(_, _)
GlobalFiltersFrom(rec, i) ==
  IF i > Len(globalFilters) THEN [pass |-> TRUE, calls |-> <<>>]
  ELSE LET n == globalFilters[i] IN
       IF n \notin filters THEN SkipMissing(GlobalFiltersFrom(rec, i + 1))
       ELSE LET c == Invocation("global-filter", 0, n, rec.f[n]) IN
            IF rec.f[n] = "true"
            THEN Passed(c, GlobalFiltersFrom(rec, i + 1))
            ELSE [pass |-> FALSE, calls |-> <<c>>]

\* a manager that goes on after a global filter rejected the record
applyGlobalFilters_AlwaysPass(rec) ==
  [pass |-> TRUE, calls |-> GlobalFiltersFrom(rec, 1).calls]

applyGlobalFilters(rec) == GlobalFiltersFrom(rec, 1)

\* the output loop of processPipeline, from the j-th name on
\* an output loop that a throwing output ends
Then_StopOnThrow(cs, es, os, r) ==
  IF cs # <<>> /\ ~os[1].success
  THEN [calls |-> cs, events |-> es, outputResults |-> os]
  ELSE [calls |-> cs \o r.calls, events |-> es \o r.events,
        outputResults |-> os \o r.outputResults]

Then(cs, es, os, r) ==
  [calls |-> cs \o r.calls, events |-> es \o r.events,
   outputResults |-> os \o r.outputResults]

RECURSIVE PipelineOutputsFrom(_, _, _, _)
PipelineOutputsFrom(pl, k, rec, j) ==
  IF j > Len(pl.outputs)
  THEN [calls |-> <<>>, events |-> <<>>, outputResults |-> <<>>]
  ELSE LET n == pl.outputs[j] IN
       IF n \notin outputs
       THEN Then(<<>>, <<>>,
                 <<[outputName |-> n, success |-> FALSE,
                    error |-> "Output plugin not found"]>>,
                 PipelineOutputsFrom(pl, k, rec, j + 1))
       ELSE IF rec.o[n] = "ok"
       THEN Then(<<Invocation("pipeline-output", k, n, rec.o[n])>>,
                 <<Event("record-output-pipeline", k, n)>>,
                 <<[outputName |-> n, success |-> TRUE, error |-> ""]>>,
                 PipelineOutputsFrom(pl, k, rec, j + 1))
       ELSE Then(<<Invocation("pipeline-output", k, n, rec.o[n])>>,
                 <<>>,
                 <<[outputName |-> n, success |-> FALSE,
                    error |-> "plugin error"]>>,
                 PipelineOutputsFrom(pl, k, rec, j + 1))

Thrown(msg, cs) ==
  [thrown |-> TRUE, error |-> msg, calls |-> cs, events |-> <<>>,
   result |-> [pipelineName |-> "", success |-> FALSE, filtered |-> "undefined",
               error |-> msg, outputResults |-> <<>>]]

\* a pipeline whose result fails when one of its outputs failed
Ran_OutputsDecide(pl, cs, os) ==
  [thrown |-> FALSE, error |-> "", calls |-> cs \o os.calls,
   events |-> os.events,
   result |-> [pipelineName |-> pl.name,
               success |-> \A j \in 1..Len(os.outputResults) :
                             os.outputResults[j].success,
               filtered |-> "false", error |-> "",
               outputResults |-> os.outputResults]]

\* processPipeline for the k-th pipeline: it looks at pipeline.filter only
Ran(pl, cs, os) ==
  [thrown |-> FALSE, error |-> "", calls |-> cs \o os.calls,
   events |-> os.events,
   result |-> [pipelineName |-> pl.name, success |-> TRUE,
               filtered |-> "false", error |-> "",
               outputResults |-> os.outputResults]]

processPipeline(pl, k, rec) ==
  IF pl.filter = None THEN Ran(pl, <<>>, PipelineOutputsFrom(pl, k, rec, 1))
  ELSE IF pl.filter \notin filters THEN Thrown("filter not found", <<>>)
  ELSE LET c == Invocation("pipeline-filter", k, pl.filter, rec.f[pl.filter]) IN
       CASE rec.f[pl.filter] = "throw" -> Thrown("plugin error", <<c>>)
         [] rec.f[pl.filter] = "false" ->
              [thrown |-> FALSE, error |-> "", calls |-> <<c>>,
               events |-> <<Event("record-filtered-pipeline", k, pl.filter)>>,
               result |-> [pipelineName |-> pl.name, success |-> TRUE,
                           filtered |-> "true", error |-> "",
                           outputResults |-> <<>>]]
         [] OTHER -> Ran(pl, <<c>>, PipelineOutputsFrom(pl, k, rec, 1))

\* processPipelines, from the k-th pipeline on
Failed(pl, r) ==
  IF r.thrown
  THEN [pipelineName |-> pl.name, success |-> FALSE, filtered |-> "undefined",
        error |-> r.error, outputResults |-> <<>>]
  ELSE r.result

\* a pipeline loop that a throwing pipeline ends
Both_StopOnThrow(r, pl, t) ==
  IF r.thrown
  THEN [calls |-> r.calls, events |-> r.events, results |-> <<Failed(pl, r)>>]
  ELSE [calls |-> r.calls \o t.calls, events |-> r.events \o t.events,
        results |-> <<Failed(pl, r)>> \o t.results]

Both(r, pl, t) ==
  [calls |-> r.calls \o t.calls, events |-> r.events \o t.events,
   results |-> <<Failed(pl, r)>> \o t.results]

RECURSIVE PipelinesFrom(_, _)
PipelinesFrom(rec, k) ==
  IF k > Len(pipelines) THEN [calls |-> <<>>, events |-> <<>>, results |-> <<>>]
  ELSE Both(processPipeline(pipelines[k], k, rec), pipelines[k],
            PipelinesFrom(rec, k + 1))

processPipelines(rec) == PipelinesFrom(rec, 1)

\* applyGlobalOutputs, from the j-th name on
\* a global output loop that a throwing output ends
After_StopOnThrow(cs, es, r) ==
  IF es = <<>> THEN [calls |-> cs, events |-> es]
  ELSE [calls |-> cs \o r.calls, events |-> es \o r.events]

\* a manager that invokes a global output once, however often it is listed
After_Once(cs, es, r) ==
  IF \E i \in 1..Len(r.calls) : r.calls[i].name = cs[1].name
  THEN r
  ELSE [calls |-> cs \o r.calls, events |-> es \o r.events]

After(cs, es, r) == [calls |-> cs \o r.calls, events |-> es \o r.events]

RECURSIVE GlobalOutputsFrom(_, _)
GlobalOutputsFrom(rec, j) ==
  IF j > Len(globalOutputs) THEN [calls |-> <<>>, events |-> <<>>]
  ELSE LET n == globalOutputs[j] IN
       IF n \notin outputs THEN GlobalOutputsFrom(rec, j + 1)
       ELSE After(<<Invocation("global-output", 0, n, rec.o[n])>>,
                  IF rec.o[n] = "ok"
                  THEN <<Event("record-output-global", 0, n)>> ELSE <<>>,
                  GlobalOutputsFrom(rec, j + 1))

applyGlobalOutputs(rec) == GlobalOutputsFrom(rec, 1)

\* processRecord: what it invokes, what it emits, and the results it reports
\* a manager that ends a surviving record without its pipeline-results event
Survived_NoReport(gf, pr, go) ==
  [calls |-> gf.calls \o pr.calls \o go.calls,
   emitted |-> pr.events \o go.events,
   results |-> pr.results]

Survived(gf, pr, go) ==
  [calls |-> gf.calls \o pr.calls \o go.calls,
   emitted |-> pr.events \o go.events \o <<Event("pipeline-results", 0, "")>>,
   results |-> pr.results]

processRecord(rec) ==
  LET gf == applyGlobalFilters(rec) IN
  IF ~gf.pass
  THEN [calls |-> gf.calls,
        emitted |-> <<Event("record-filtered-global", 0, "")>>,
        results |-> <<>>]
  ELSE Survived(gf, processPipelines(rec),
                IF Len(globalOutputs) > 0 THEN applyGlobalOutputs(rec)
                ELSE [calls |-> <<>>, events |-> <<>>])

\* (a behaviour follows one call: the manager keeps nothing from one call to
\* the next)
ProcessRecord(rec) ==
  /\ handled = 0
  /\ handled' = handled + 1
  /\ record' = rec
  /\ report' = processRecord(rec)
  /\ UNCHANGED configVars

\* ------------------------------------------------ the configurations
\* The size of a configuration is the number of its pipelines plus the number
\* of plugin names it mentions.
FilterCost(f) == IF f = None THEN 0 ELSE 1

PipelineDecls(n) ==
  UNION { UNION { { [name |-> nm, filter |-> f, filters |-> fl, outputs |-> os] :
                      nm \in PipelineNames,
                      os \in [1..(n - 1 - FilterCost(f) - Len(fl)) -> OutputNames] } :
                  fl \in {l \in FilterLists : 1 + FilterCost(f) + Len(l) <= n} } :
          f \in FilterNames \cup {None} }

RECURSIVE PipelineLists(_)
PipelineLists(n) ==
  IF n = 0 THEN {<<>>}
  ELSE UNION { { <<d>> \o rest : d \in PipelineDecls(k),
                                 rest \in PipelineLists(n - k) } : k \in 1..n }

\* the server's constructor: loadPlugins registers the plugins and sets the
\* pipelines and the global lists of the configuration
loadPlugins ==
  /\ filters = RegisteredFilters
  /\ outputs = RegisteredOutputs
  /\ \E a \in 0..MaxConfigSize : \E b \in 0..(MaxConfigSize - a) :
       \E c \in 0..(MaxConfigSize - a - b) :
         /\ globalFilters \in [1..a -> FilterNames]
         /\ globalOutputs \in [1..b -> OutputNames]
         /\ pipelines \in PipelineLists(c)
  /\ InitRegistry

InitPipe ==
  /\ InitReader
  /\ enableBuffering
  /\ debounceTimers = <<>>
  /\ loadPlugins
  /\ InitReport
  /\ InitLife

NextPipe ==
  \E rec \in Records : ProcessRecord(rec) /\ UNCHANGED <<readerVars, watcherVars, lifeVars>>

SpecPipe == InitPipe /\ [][NextPipe]_vars

\* ------------------------------------------------ the plugin registry
\* names a plugin object may carry; a filter and an output may share one
PluginNames == {"A", "X"}

\* history: the call is entered in regs; the object is the id-th one made
Registration(kind, plugin) == [kind |-> kind, name |-> plugin.name,
                               id |-> plugin.id]

\* a registry that keeps the object a name already has
MapSet_KeepFirst(m, k, v) == IF k \in DOMAIN m THEN m ELSE SetPos(m, k, v)

\* Map.prototype.set
MapSet(m, k, v) == SetPos(m, k, v)

\* addFilter: this.filters.set(filter.name, filter)
addFilter(plugin) ==
  /\ Len(regs) < MaxRegs
  /\ filterOf' = MapSet(filterOf, plugin.name, plugin.id)
  /\ filters' = DOMAIN filterOf'
  /\ regs' = Append(regs, Registration("filter", plugin))
  /\ UNCHANGED <<outputs, outputOf, pipelines, globalFilters, globalOutputs,
                 loaderVars, httpVars>>

\* addOutput: this.outputs.set(output.name, output)
addOutput(plugin) ==
  /\ Len(regs) < MaxRegs
  /\ outputOf' = MapSet(outputOf, plugin.name, plugin.id)
  /\ outputs' = DOMAIN outputOf'
  /\ regs' = Append(regs, Registration("output", plugin))
  /\ UNCHANGED <<filters, filterOf, pipelines, globalFilters, globalOutputs,
                 loaderVars, httpVars>>

\* each call is given an object that was not registered before
NewPlugin(n) == [name |-> n, id |-> Len(regs) + 1]

NextRegistry ==
  \/ \E n \in PluginNames :
       addFilter(NewPlugin(n))
         /\ UNCHANGED <<readerVars, watcherVars, lifeVars, record, handled,
                        report>>
  \/ \E n \in PluginNames :
       addOutput(NewPlugin(n))
         /\ UNCHANGED <<readerVars, watcherVars, lifeVars, record, handled,
                        report>>

SpecRegistry == Init /\ [][NextRegistry]_vars

\* --------------------------------------------------------- ConfigLoader
\* the options object of a configuration document: each key absent or set
Docs == [debounceMs : {Absent, "0", "500"},
         maxRetries : {Absent, "0", "5"},
         logLevel : {Absent, "debug"},
         enableBuffering : {Absent, "true", "false"}]

\* a || b
OrElse(v, d) == IF v \in {Absent, "0", "", "false"} THEN d ELSE v

\* validateAndTransformConfig: the options of the ServerConfig it returns
validateAndTransformConfig(d) ==
  [options |-> [debounceMs |-> OrElse(d.debounceMs, "1000"),
                maxRetries |-> OrElse(d.maxRetries, "3"),
                logLevel |-> OrElse(d.logLevel, "info"),
                enableBuffering |-> Absent]]

\* ConfigLoader.loadConfig over the document
loadConfig ==
  /\ config = <<>>
  /\ config' = <<validateAndTransformConfig(doc[1])>>
  /\ UNCHANGED <<doc, built, readerVars>>

\* new JsonlStreamServer(config): the processor is made with
\* config.options.enableBuffering !== false
NewServer ==
  /\ config # <<>> /\ ~built
  /\ built' = TRUE
  /\ enableBuffering' = (config[1].options.enableBuffering # "false")
  /\ UNCHANGED <<doc, config, files, filePositions, isProcessing, passes,
                 plog, rejected, cuts>>

\* before the server is made the field holds the default of the constructor
\* parameter
InitConfig ==
  /\ InitReader /\ enableBuffering
  /\ debounceTimers = <<>>
  /\ filters = {} /\ outputs = {} /\ pipelines = <<>>
  /\ globalFilters = <<>> /\ globalOutputs = <<>>
  /\ filterOf = <<>> /\ outputOf = <<>> /\ regs = <<>>
  /\ doc \in {<<d>> : d \in Docs} /\ config = <<>> /\ built = FALSE
  /\ InitHttp
  /\ InitReport
  /\ InitLife

Untouched == <<filters, outputs, pipelines, globalFilters, globalOutputs,
               registryVars, httpVars, record, handled, report>>

NextConfig ==
  \/ loadConfig /\ UNCHANGED <<watcherVars, lifeVars, Untouched>>
  \/ NewServer /\ UNCHANGED <<watcherVars, lifeVars, Untouched>>
  \/ \E p \in Paths :
       built /\ files[p].exists /\ ProcessFile(p)
         /\ UNCHANGED <<watcherVars, pipeVars, lifeVars>>
  \/ built /\ Pass /\ UNCHANGED <<watcherVars, pipeVars, lifeVars>>

SpecConfig == InitConfig /\ [][NextConfig]_vars

\* ======================================================= HttpOutputPlugin
\* a sendRequest call at the head of its loop
NewSend(records, by) ==
  [records |-> records, attempt |-> 0, state |-> "running", by |-> by,
   made |-> 0, ok |-> FALSE]

\* flushBatch over the batch b: nothing if it is empty, else the timer is
\* cleared, the batch emptied and sendRequest called
flushBatch(b, by) ==
  IF b = <<>>
  THEN /\ batch' = b
       /\ batchTimer' = IF by = "timer" THEN "fired" ELSE batchTimer
       /\ UNCHANGED sends
  ELSE /\ batch' = <<>>
       /\ batchTimer' = "null"
       /\ sends' = Append(sends, NewSend(b, by))

\* addToBatch
addToBatch(r) ==
  LET b == Append(batch, r) IN
  IF Len(b) >= batchSize THEN flushBatch(b, "output")
  ELSE /\ batch' = b
       /\ batchTimer' = IF batchTimer = "null" THEN "pending" ELSE batchTimer
       /\ UNCHANGED sends

\* output(record), up to its first await
output(r) ==
  /\ ~exited
  /\ arrived < MaxOutputs
  /\ arrived' = r
  /\ IF batchSize = 1
     THEN /\ sends' = Append(sends, NewSend(<<r>>, "output"))
          /\ UNCHANGED <<batch, batchTimer>>
     ELSE addToBatch(r)
  /\ UNCHANGED <<retries, batchSize, exited>>

\* the batch timer fires: its callback calls flushBatch and drops the promise
BatchTimerFire ==
  /\ ~exited
  /\ batchTimer = "pending"
  /\ flushBatch(batch, "timer")
  /\ UNCHANGED <<retries, batchSize, arrived, exited>>

\* a rejected promise that nobody awaits: process.on('unhandledRejection')
\* exits the process
Unhandled(s) == s.by = "timer"

\* sendRequest: the loop test, and one fetch with what follows it (the delay
\* before the next attempt included)
Attempt(i) ==
  LET s == sends[i] IN
  /\ ~exited
  /\ s.state = "running"
  /\ IF ~(s.attempt < retries)
     THEN /\ sends' = [sends EXCEPT ![i].state = "resolved"]
          /\ UNCHANGED exited
     ELSE \E ok \in BOOLEAN :
            IF ok
            THEN /\ sends' = [sends EXCEPT ![i].state = "resolved",
                                           ![i].made = @ + 1, ![i].ok = TRUE]
                 /\ UNCHANGED exited
            ELSE IF s.attempt = retries - 1
            THEN /\ sends' = [sends EXCEPT ![i].state = "rejected",
                                           ![i].made = @ + 1]
                 /\ exited' = Unhandled(s)
            ELSE /\ sends' = [sends EXCEPT ![i].attempt = @ + 1,
                                           ![i].made = @ + 1]
                 /\ UNCHANGED exited
  /\ UNCHANGED <<retries, batchSize, batch, batchTimer, arrived>>

\* the options the plugin is made with
InitOptions ==
  /\ retries \in 0..MaxRetries
  /\ batchSize \in 1..MaxBatch
  /\ batch = <<>>
  /\ batchTimer = "null"
  /\ sends = <<>>
  /\ arrived = 0
  /\ exited = FALSE

InitPlugin ==
  /\ InitReader /\ enableBuffering
  /\ debounceTimers = <<>>
  /\ filters = {} /\ outputs = {} /\ pipelines = <<>>
  /\ globalFilters = <<>> /\ globalOutputs = <<>>
  /\ filterOf = <<>> /\ outputOf = <<>> /\ regs = <<>>
  /\ InitLoader
  /\ InitOptions
  /\ InitReport
  /\ InitLife

NotHttp == <<readerVars, watcherVars, lifeVars, filters, outputs, pipelines,
             globalFilters, globalOutputs, registryVars, loaderVars, record,
             handled, report>>

SendStep == \E i \in 1..Len(sends) : Attempt(i)

NextHttp ==
  \/ output(arrived + 1) /\ UNCHANGED NotHttp
  \/ BatchTimerFire /\ UNCHANGED NotHttp
  \/ SendStep /\ UNCHANGED NotHttp

\* a pending timer fires and a fetch settles, as long as the process lives
SpecHttp ==
  /\ InitPlugin /\ [][NextHttp]_vars
  /\ WF_vars(BatchTimerFire /\ UNCHANGED NotHttp)
  /\ WF_vars(SendStep /\ UNCHANGED NotHttp)

\* ===================================== KeywordFilterPlugin, end to end
\* KeywordFilterPlugin.filter in include mode with keywords ["error"] and no
\* searchFields: JSON.stringify(record) includes the keyword
KeywordFilter(text) == \E k \in 1..Len(text) : text[k] = "e"

\* the record parsed from a line, by what the plugins do with it: filter A
\* is the keyword filter, no plugin throws
RecordOf(text) ==
  [f |-> [n \in RegisteredFilters |->
            IF KeywordFilter(text) THEN "true" ELSE "false"],
   o |-> [n \in RegisteredOutputs |-> "ok"]]

\* the file grows from empty to these lines
Target == <<InfoLine, ErrorLine>>

LinesWritten(data) == Cardinality({k \in 1..Len(data) : data[k] = "n"})

\* the writer appends the next line, with its line feed, in one write
AppendLine(p) ==
  /\ files[p].exists
  /\ LinesWritten(files[p].data) < Len(Target)
  /\ files' = [files EXCEPT ![p].data =
                  @ \o Target[LinesWritten(@) + 1] \o <<"n">>]
  /\ passes' = Stale(passes, p)
  /\ UNCHANGED <<filePositions, isProcessing, enableBuffering, plog,
                 rejected, cuts>>

InitKeyword ==
  /\ files = [p \in Paths |->
               [exists |-> TRUE, data |-> IF p \in Written THEN <<>> ELSE Settled]]
  /\ filePositions = <<>>
  /\ isProcessing = FALSE
  /\ enableBuffering = TRUE
  /\ passes = <<>>
  /\ plog = <<>>
  /\ rejected = {}
  /\ cuts = [p \in Paths |-> 0]
  /\ debounceTimers = <<>>
  /\ filters = {"A"}
  /\ outputs = {"X"}
  /\ pipelines = <<>>
  /\ globalFilters = <<"A">>
  /\ globalOutputs = <<"X">>
  /\ InitRegistry
  /\ InitReport
  /\ InitLife

NextKeyword ==
  \/ \E p \in Written : AppendLine(p) /\ UNCHANGED <<watcherVars, pipeVars, lifeVars>>
  \/ CallWritten /\ UNCHANGED <<watcherVars, pipeVars, lifeVars>>
  \/ Pass /\ UNCHANGED <<watcherVars, pipeVars, lifeVars>>

SpecKeyword == InitKeyword /\ [][NextKeyword]_vars

\* ====================================================================
\* Properties
\* ====================================================================
\* the entries of plog that are parse attempts on lines of p
ParseEntries(p) ==
  {j \in 1..Len(plog) : plog[j].kind \in {"record", "parse-error"}
                        /\ plog[j].path = p}

\* the byte offset at which the line holding byte offset off starts
LineStart(data, off) == Max({0} \cup {k \in 1..off : k <= Len(data) /\ data[k] = "n"})

\* the byte offset just after the last line feed of data
LastLineEnd(data) == Max({0} \cup {k \in 1..Len(data) : data[k] = "n"})

PassesOn(p) == {i \in 1..Len(passes) : passes[i].path = p}

\* no pass over p is in flight and the last one over p is i
LastPassOn(p, i) ==
  /\ i \in PassesOn(p)
  /\ \A j \in PassesOn(p) : j <= i /\ passes[j].pc = "done"

\* C1: with buffering enabled and a file that only grows, after each
\* completed pass the stored offset is the size the pass found, and no two
\* passes parse a line that starts at the same byte.
C1_OffsetIsSizeAndNoLineTwice ==
  enableBuffering =>
    \A p \in Paths :
      /\ \A i \in PassesOn(p) :
           LastPassOn(p, i) => GetPos(filePositions, p) = passes[i].size
      /\ \A j1, j2 \in ParseEntries(p) :
           plog[j1].pass # plog[j2].pass => plog[j1].off # plog[j2].off

\* C2: a line without its line feed is not parsed, the offset stops after the
\* last complete line, and every complete line below the offset has been
\* dispatched in full exactly once.
C2_PartialLineHeldBack ==
  enableBuffering =>
    \A p \in Paths :
      /\ \A j \in ParseEntries(p) : plog[j].term
      /\ \A i \in PassesOn(p) :
           LastPassOn(p, i) =>
             /\ GetPos(filePositions, p)
                  = LastLineEnd(SubSeq(files[p].data, 1, passes[i].size))
             /\ \A k \in 1..Len(LinesFrom(files[p].data, 1, 0)) :
                  LET l == LinesFrom(files[p].data, 1, 0)[k] IN
                  (l.term /\ ~IsBlank(l.text)
                     /\ l.off + Len(l.text) < GetPos(filePositions, p))
                   => Cardinality({j \in ParseEntries(p) :
                         plog[j].off = l.off /\ plog[j].text = l.text}) = 1

\* C3: once a pass has found the file truncated and the file does not change
\* any more, that pass and the later ones together dispatch every line of the
\* file exactly once.
C3_TruncatedFileReadOnce ==
  \A i \in 1..Len(passes) :
    (passes[i].trunc /\ passes[i].intact) =>
      LET p  == passes[i].path
          ls == LinesFrom(files[p].data, 1, 0)
      IN \A k \in 1..Len(ls) :
           LET n == Cardinality({j \in ParseEntries(p) :
                       plog[j].pass >= i /\ plog[j].off = ls[k].off})
           IN ~IsBlank(ls[k].text) =>
                /\ n <= 1
                /\ passes[i].pc = "done" => n = 1

\* C4: at most one pass is in flight, and a processFile call that arrives
\* while one is in flight starts nothing, emits nothing and stores nothing.
C4_OnePassAtATime ==
  /\ [](Cardinality(InFlight) <= 1 /\ (isProcessing <=> InFlight # {}))
  /\ [][rejected' # rejected =>
          UNCHANGED <<files, filePositions, isProcessing, passes, plog>>]_vars

C4_Witness ==
  /\ "g" \in rejected
  /\ \E i \in InFlight : passes[i].path = "f" /\ passes[i].pc = "lines"

\* a complete, non-blank line of p that starts at offset k and that no pass
\* has read
UnreadAt(p, k) ==
  /\ files[p].exists
  /\ \E n \in 1..Len(LinesFrom(files[p].data, 1, 0)) :
       LET l == LinesFrom(files[p].data, 1, 0)[n] IN
       l.off = k /\ l.term /\ ~IsBlank(l.text)
  /\ \A j \in ParseEntries(p) : LineStart(files[p].data, plog[j].off) # k

\* C5: every complete line appended to a watched file is eventually read by
\* some pass (as long as the model's supply of passes lasts).
C5_EveryLineEventuallyRead ==
  \A p \in Written : \A k \in 0..(MaxFileSize - 1) :
    [](UnreadAt(p, k) => <>(~UnreadAt(p, k) \/ Len(passes) = MaxPasses))

\* -------------------------------------------- properties of processRecord
Done == handled = 1

IsPrefix(a, b) == Len(a) <= Len(b) /\ a = SubSeq(b, 1, Len(a))

\* the names invoked at one stage for pipeline k (0: the global lists)
CallNames(stage, k) ==
  LET T(c) == c.stage = stage /\ c.idx = k
      sel  == SelectSeq(report.calls, T)
  IN [i \in 1..Len(sel) |-> sel[i].name]

RegisteredOf(names, reg) ==
  LET T(n) == n \in reg IN SelectSeq(names, T)

HasEvent(type, k) ==
  \E i \in 1..Len(report.emitted) :
    report.emitted[i].type = type /\ report.emitted[i].idx = k

\* every registered global filter of the list accepts the record
GlobalAccept ==
  \A i \in 1..Len(globalFilters) :
    globalFilters[i] \in filters => record.f[globalFilters[i]] = "true"

\* the positions of the registered global filters that reject the record
RejectAt ==
  {i \in 1..Len(globalFilters) :
     globalFilters[i] \in filters /\ record.f[globalFilters[i]] = "false"}

\* pipeline.filter is absent, or registered and accepts the record
FilterPassed(k) ==
  \/ pipelines[k].filter = None
  \/ /\ pipelines[k].filter \in filters
     /\ record.f[pipelines[k].filter] = "true"

\* C6: a pipeline declared with the filter list [A, B] runs its outputs only
\* if A and B both accept the record; if one of them rejects it, none of its
\* outputs runs and record-filtered-pipeline is emitted for it.
C6_FilterListIsConjunction ==
  (Done /\ GlobalAccept) =>
    \A k \in 1..Len(pipelines) :
      pipelines[k].filters = <<"A", "B">> =>
        /\ CallNames("pipeline-output", k) # <<>> =>
             record.f["A"] = "true" /\ record.f["B"] = "true"
        /\ (record.f["A"] = "false" \/ record.f["B"] = "false") =>
             /\ CallNames("pipeline-output", k) = <<>>
             /\ HasEvent("record-filtered-pipeline", k)

\* C7: when the filter of a pipeline passes, each of its output names is
\* attempted once, in list order, whatever the earlier outputs did, and
\* outputResults has one entry per name, in order, successful exactly for
\* the registered outputs that did not throw.
C7_OutputsIsolated ==
  (Done /\ GlobalAccept) =>
    \A k \in 1..Len(pipelines) :
      FilterPassed(k) =>
        LET os  == pipelines[k].outputs
            ors == report.results[k].outputResults
        IN /\ CallNames("pipeline-output", k) = RegisteredOf(os, outputs)
           /\ Len(ors) = Len(os)
           /\ \A j \in 1..Len(os) :
                /\ ors[j].outputName = os[j]
                /\ ors[j].success <=>
                     (os[j] \in outputs /\ record.o[os[j]] = "ok")

C7_Witness ==
  /\ Done /\ GlobalAccept
  /\ \E k \in 1..Len(pipelines) :
       /\ FilterPassed(k)
       /\ pipelines[k].outputs = <<"X", "Y">>
       /\ record.o["X"] = "throw" /\ record.o["Y"] = "ok"
       /\ report.results[k].outputResults[2].success

\* C8: when a registered global filter rejects the record, only global
\* filters up to the rejecting one are invoked and record-filtered-global is
\* the only event.
C8_GlobalRejectStopsRecord ==
  (Done /\ RejectAt # {}) =>
    /\ \A i \in 1..Len(report.calls) : report.calls[i].stage = "global-filter"
    /\ IsPrefix(CallNames("global-filter", 0),
                RegisteredOf(SubSeq(globalFilters, 1, Min(RejectAt)), filters))
    /\ report.emitted = <<Event("record-filtered-global", 0, "")>>

C8_Witness ==
  /\ Done /\ RejectAt = {2}
  /\ Len(report.calls) = 2
  /\ Len(pipelines) = 1 /\ pipelines[1].filter = None
  /\ pipelines[1].outputs = <<"X">>

\* C9: when the record survives the global filters, the registered names of
\* the global output list are invoked once per occurrence, in order, after
\* every pipeline invocation, whatever the pipelines did and whether or not
\* an earlier global output threw.
C9_GlobalOutputsAlwaysRun ==
  (Done /\ GlobalAccept) =>
    /\ CallNames("global-output", 0) = RegisteredOf(globalOutputs, outputs)
    /\ \A i, j \in 1..Len(report.calls) :
         (i < j /\ report.calls[i].stage = "global-output")
           => report.calls[j].stage = "global-output"

C9_Witness ==
  /\ Done /\ GlobalAccept
  /\ globalOutputs = <<"X", "Y">>
  /\ record.o["X"] = "throw"
  /\ Len(pipelines) = 1 /\ ~report.results[1].success
  /\ CallNames("global-output", 0) = <<"X", "Y">>

\* C10: when the record survives the global filters, every pipeline is
\* evaluated once, in declaration order, whatever the earlier ones did; the
\* results list has one entry per pipeline, in order; a pipeline whose filter
\* is unregistered or throws has a failed result with an error text and
\* none of its outputs is invoked.
C10_PipelinesIndependent ==
  (Done /\ GlobalAccept) =>
    /\ Len(report.results) = Len(pipelines)
    /\ \A i, j \in 1..Len(report.calls) :
         (i < j /\ report.calls[i].idx > 0 /\ report.calls[j].idx > 0)
           => report.calls[i].idx <= report.calls[j].idx
    /\ \A k \in 1..Len(pipelines) :
         LET f == pipelines[k].filter IN
         /\ report.results[k].pipelineName = pipelines[k].name
         /\ CallNames("pipeline-filter", k)
              = IF f # None /\ f \in filters THEN <<f>> ELSE <<>>
         /\ FilterPassed(k) =>
              CallNames("pipeline-output", k)
                = RegisteredOf(pipelines[k].outputs, outputs)
         /\ (f # None /\ (f \notin filters \/ record.f[f] = "throw")) =>
              /\ ~report.results[k].success
              /\ report.results[k].error # ""
              /\ report.results[k].outputResults = <<>>
              /\ CallNames("pipeline-output", k) = <<>>

C10_Witness ==
  /\ Done /\ GlobalAccept
  /\ Len(pipelines) = 2
  /\ pipelines[1].name = pipelines[2].name
  /\ pipelines[1].filter = "M"
  /\ ~report.results[1].success
  /\ CallNames("pipeline-output", 2) = <<"X">>

\* an invocation that threw shows in the results of the pipeline-results
\* event: a failed pipeline entry for a filter, a failed output entry with
\* its name for an output
Captured(c) ==
  \E k \in 1..Len(report.results) :
    LET r == report.results[k] IN
    \/ /\ c.stage \in {"global-filter", "pipeline-filter"}
       /\ ~r.success /\ r.error # ""
    \/ /\ c.stage \in {"global-output", "pipeline-output"}
       /\ \E j \in 1..Len(r.outputResults) :
            /\ r.outputResults[j].outputName = c.name
            /\ ~r.outputResults[j].success

\* C11: every plugin invocation that throws while the record is processed is
\* captured in the results of a pipeline-results event emitted for the record.
C11_ThrowsAreReported ==
  Done =>
    \A i \in 1..Len(report.calls) :
      report.calls[i].outcome = "throw" =>
        HasEvent("pipeline-results", 0) /\ Captured(report.calls[i])

\* C12: when no registered global filter returns false (some may throw), the
\* record is not dropped: every registered global filter is invoked, every
\* pipeline is evaluated, every registered global output is invoked and
\* pipeline-results is emitted.
C12_GlobalFilterFailsOpen ==
  (Done /\ RejectAt = {}) =>
    /\ CallNames("global-filter", 0) = RegisteredOf(globalFilters, filters)
    /\ Len(report.results) = Len(pipelines)
    /\ CallNames("global-output", 0) = RegisteredOf(globalOutputs, outputs)
    /\ HasEvent("pipeline-results", 0)

Terminal == {"record-filtered-global", "pipeline-results", "pipeline-error"}

TerminalAt == {i \in 1..Len(report.emitted) : report.emitted[i].type \in Terminal}

\* C13: a processRecord call emits exactly one terminal event, as its last
\* event, and it is never pipeline-error: record-filtered-global when a
\* registered global filter rejects the record, pipeline-results with one
\* result per pipeline when every registered global filter accepts it.
C13_OneTerminalEvent ==
  Done =>
    /\ TerminalAt = {Len(report.emitted)}
    /\ LET t == report.emitted[Len(report.emitted)].type IN
       /\ t # "pipeline-error"
       /\ RejectAt # {} => t = "record-filtered-global"
       /\ GlobalAccept =>
            t = "pipeline-results" /\ Len(report.results) = Len(pipelines)

C13_Witness ==
  /\ Done /\ GlobalAccept
  /\ Len(pipelines) = 2
  /\ ~report.results[1].success
  /\ \E i \in 1..Len(report.calls) :
       report.calls[i].stage = "pipeline-output" /\ report.calls[i].outcome = "throw"
  /\ Len(report.emitted) = 1

\* -------------------------------------------- a file deleted and re-created
\* pass i is the first whose stat saw the file that replaced a deleted one
FirstOnNewFile(i) ==
  /\ passes[i].gen > 0
  /\ \A j \in 1..(i - 1) :
       passes[j].path = passes[i].path => passes[j].gen # passes[i].gen

\* C14: the first pass over a file created at the path of a deleted file
\* reads it from byte 0, whatever offset the deleted file had reached.
C14_RecreatedFileReadFromZero ==
  \A i \in 1..Len(passes) :
    (passes[i].mode = "buffered" /\ FirstOnNewFile(i)) => passes[i].start = 0

\* ------------------------------------------ properties of watcher and server
IsCall(e) == e.op \in {"start", "stop"}

\* the entries of slog that decide whether p has a pending timer
Relevant(p) ==
  {i \in 1..Len(slog) :
     \/ slog[i].op = "stop" /\ slog[i].result = "ok"
     \/ slog[i].op \in {"raw", "file-event"} /\ slog[i].path = p}

Pending(p) == Relevant(p) # {} /\ slog[Max(Relevant(p))].op = "raw"

\* C15: a path has a pending timer exactly from its last raw event until its
\* file-event (or stop), whatever happens to other paths; the timer, and the
\* one file-event that ends the burst, carry the type of the last raw event.
C15_DebounceCollapsesBurst ==
  \A p \in Paths :
    /\ p \in DOMAIN debounceTimers <=> Pending(p)
    /\ Pending(p) => debounceTimers[p] = slog[Max(Relevant(p))].type
    /\ \A j \in 1..Len(slog) :
         (slog[j].op = "file-event" /\ slog[j].path = p) =>
           LET before == {i \in Relevant(p) : i < j} IN
           /\ before # {}
           /\ slog[Max(before)].op = "raw"
           /\ slog[Max(before)].type = slog[j].type

C15_Witness ==
  /\ "g" \in DOMAIN debounceTimers
  /\ \E i \in 1..Len(slog) :
       /\ i + 3 <= Len(slog)
       /\ slog[i] = WatchEntry("raw", "add", "f")
       /\ slog[i + 1] = WatchEntry("raw", "unlink", "g")
       /\ slog[i + 2] = WatchEntry("raw", "change", "f")
       /\ slog[i + 3] = WatchEntry("file-event", "change", "f")

\* C16: while the server is stopped no timer is pending, no file-event is
\* emitted and no processFile call is made.
C16_StoppedIsQuiet ==
  /\ [](~isRunning => debounceTimers = <<>>)
  /\ [][~isRunning =>
          /\ Len(passes') = Len(passes)
          /\ rejected' = rejected
          /\ Len(slog') > Len(slog) => slog'[Len(slog')].op # "file-event"]_vars

C16_Witness ==
  /\ ~isRunning
  /\ InFlight # {}
  /\ \E i \in 1..Len(slog) :
       /\ i < Len(slog)
       /\ slog[i].op = "raw"
       /\ slog[i + 1].op = "stop" /\ slog[i + 1].result = "ok"

Count(events, x) == Cardinality({i \in 1..Len(events) : events[i] = x})

Changed == Len(slog') > Len(slog)

\* C17: start() on a stopped server (directory present) makes it running and
\* emits started once; stop() on a running server makes it stopped and emits
\* stopped once; start() while running and stop() while stopped change
\* nothing, emit nothing, create or close no watcher and do not throw.
C17_TwoStateLifecycle ==
  /\ [](\A i \in 1..Len(slog) :
          LET e == slog[i] IN
          IsCall(e) =>
            /\ (e.op = "start" /\ ~e.was /\ e.root) =>
                 e.result = "ok" /\ Count(e.events, "started") = 1
            /\ (e.op = "stop" /\ e.was) =>
                 e.result = "ok" /\ Count(e.events, "stopped") = 1
            /\ ((e.op = "start") <=> e.was) =>
                 e.result = "noop" /\ e.events = <<>>)
  /\ [][(Changed /\ IsCall(slog'[Len(slog')])) =>
          LET e == slog'[Len(slog')] IN
          /\ e.result = "noop" =>
               UNCHANGED <<isRunning, watcher, debounceTimers, readerVars>>
          /\ (e.result = "ok" /\ e.op = "start") => ~isRunning /\ isRunning'
          /\ (e.result = "ok" /\ e.op = "stop") => isRunning /\ ~isRunning']_vars

C17_Witness ==
  /\ Len(slog) >= 4
  /\ slog[1].op = "start" /\ slog[1].result = "ok"
  /\ slog[2].op = "start" /\ slog[2].result = "noop"
  /\ slog[3].op = "stop" /\ slog[3].result = "ok"
  /\ slog[4].op = "stop" /\ slog[4].result = "noop"

\* C18: start() on a stopped server whose watch directory is missing throws
\* and changes nothing: the server stays stopped, no watcher is created,
\* started is not emitted; start() on a stopped server whose directory exists
\* succeeds, also after such a failure.
C18_StartWithoutRootFails ==
  /\ [](\A i \in 1..Len(slog) :
          LET e == slog[i] IN
          (IsCall(e) /\ e.op = "start" /\ ~e.was) =>
            IF e.root THEN e.result = "ok"
            ELSE e.result = "threw" /\ e.events = <<>>)
  /\ [][(Changed /\ IsCall(slog'[Len(slog')])
           /\ slog'[Len(slog')].result = "threw") =>
          /\ UNCHANGED <<isRunning, watcher, debounceTimers, readerVars>>
          /\ ~isRunning' /\ ~watcher']_vars

C18_Witness ==
  /\ isRunning /\ watcher
  /\ \E i, j \in 1..Len(slog) :
       /\ i < j
       /\ slog[i].op = "start" /\ slog[i].result = "threw"
       /\ slog[j].op = "start" /\ slog[j].result = "ok"

\* ------------------------------------------------- malformed and blank lines
\* what pass i parsed, in order
ParsedBy(i) ==
  LET T(e) == e.kind \in {"record", "parse-error"} /\ e.pass = i
  IN SelectSeq(plog, T)

NonBlank(ls) == LET T(l) == ~IsBlank(l.text) IN SelectSeq(ls, T)

\* the k-th entry of ls is its LineNo(ls, k)-th line
LineNo(ls, all, k) ==
  Min({n \in 1..Len(all) :
         Cardinality({m \in 1..n : ~IsBlank(all[m].text)}) = k})

Ended(i, kind) ==
  \E j \in 1..Len(plog) : plog[j].kind = kind /\ plog[j].pass = i

\* C19: a pass over a file with malformed lines ends with processing-complete
\* and, in buffered mode, the offset at the file size; it emits parse-error
\* with path, line number and raw line for each non-blank line that is not
\* JSON, dispatches every other non-blank line, and does neither for a
\* white-space line.
C19_MalformedLineSkipped ==
  \A i \in 1..Len(passes) :
    passes[i].pc = "done" =>
      LET p   == passes[i].path
          all == ReadLines(files[p].data,
                           IF passes[i].mode = "buffered"
                           THEN passes[i].start ELSE 0)
          ls  == NonBlank(all)
          es  == ParsedBy(i)
      IN /\ Ended(i, "processing-complete")
         /\ ~Ended(i, "processing-error")
         /\ passes[i].mode = "buffered" =>
              GetPos(filePositions, p) = Len(files[p].data)
         /\ Len(es) = Len(ls)
         /\ \A k \in 1..Len(ls) :
              /\ es[k].kind = IF IsJson(ls[k].text) THEN "record"
                              ELSE "parse-error"
              /\ es[k].text = ls[k].text
              /\ es[k].path = p
              /\ es[k].lineNumber = LineNo(ls, all, k)

C19_Witness ==
  /\ files["f"].data = <<"1", "n", "{", "n", "1">>
  /\ Len(passes) >= 1 /\ passes[1].pc = "done"
  /\ Len(ParsedBy(1)) = 3
  /\ ParsedBy(1)[2].kind = "parse-error"
  /\ ParsedBy(1)[3].kind = "record"

\* ---------------------------------------------------- a failing stat or open
\* C20: a pass that ends with processing-error dispatched nothing and left
\* every stored offset as it was when the pass began.
C20_FailedPassKeepsOffsets ==
  \A i \in 1..Len(passes) :
    Ended(i, "processing-error") =>
      /\ ParsedBy(i) = <<>>
      /\ i = Len(passes) => filePositions = passes[i].was

Dispatches ==
  LET T(e) == e.kind \in {"dispatch", "record"} IN SelectSeq(plog, T)

\* C22: the plugins work on one record at a time: a call of processRecord
\* has returned before the next one is made, in the same pass or any other,
\* and the calls of a pass follow the order of the lines in the file.
C22_OneRecordAtATime ==
  LET d == Dispatches IN
  /\ Cardinality({i \in 1..Len(passes) : passes[i].pc = "plugins"}) <= 1
  /\ \A j \in 1..Len(d) :
       /\ d[j].kind = "dispatch" <=> j % 2 = 1
       /\ d[j].kind = "record" =>
            d[j - 1].pass = d[j].pass /\ d[j - 1].off = d[j].off
  /\ \A j, k \in 1..Len(d) :
       (j < k /\ d[j].kind = "dispatch" /\ d[k].kind = "dispatch"
          /\ d[j].pass = d[k].pass) => d[j].off < d[k].off

C22_Witness ==
  /\ rejected # {}
  /\ \E i \in 1..Len(passes) :
       /\ passes[i].pc = "plugins"
       /\ \E j \in 1..Len(plog) : plog[j].kind = "record" /\ plog[j].pass = i

\* ------------------------------------------------- offsets of a growing file
\* C23: over files that only grow, a stored offset never decreases and is
\* never larger than the size of the file.
C23_OffsetMonotoneAndBounded ==
  /\ [](\A p \in Paths : GetPos(filePositions, p) <= Len(files[p].data))
  /\ [][\A p \in Paths :
          GetPos(filePositions', p) >= GetPos(filePositions, p)]_vars

C23_Witness ==
  \E i, j \in 1..Len(passes) :
    /\ i < j
    /\ passes[i].path = "f" /\ passes[j].path = "f"
    /\ passes[i].pc = "done" /\ passes[j].pc = "done"
    /\ passes[i].size = 1 /\ passes[j].size = 2
    /\ GetPos(filePositions, "f") = 2
    /\ Len(files["f"].data) = 3

\* ------------------------------------------------- the keyword scenario
\* the dispatched records of f for which processRecord emits an event of
\* the given type
DispatchedWith(type) ==
  {j \in ParseEntries("f") :
     /\ plog[j].kind = "record"
     /\ LET r == processRecord(RecordOf(plog[j].text)) IN
        \E k \in 1..Len(r.emitted) : r.emitted[k].type = type}

\* C24: once the file holds the info line and the error line and has been
\* read to its end, the global output was invoked once, for the error
\* record, and record-filtered-global was emitted once, for the info record.
C24_KeywordScenario ==
  (/\ LinesWritten(files["f"].data) = Len(Target)
   /\ InFlight = {}
   /\ GetPos(filePositions, "f") = Len(files["f"].data))
  => /\ Cardinality(DispatchedWith("record-output-global")) = 1
     /\ Cardinality(DispatchedWith("record-filtered-global")) = 1
     /\ \A j \in DispatchedWith("record-output-global") :
          plog[j].text = ErrorLine
     /\ \A j \in DispatchedWith("record-filtered-global") :
          plog[j].text = InfoLine

\* ------------------------------------------------- files of another kind
\* C25: a raw event of a path whose extension is not .jsonl changes no
\* timer, and no timer and no file-event ever exists for such a path.
C25_OtherFilesIgnored ==
  /\ [](\A p \in Ignored :
          /\ p \notin DOMAIN debounceTimers
          /\ \A j \in 1..Len(slog) :
               slog[j].op = "file-event" => slog[j].path # p)
  /\ [][(Changed /\ slog'[Len(slog')].op = "raw"
           /\ slog'[Len(slog')].path \in Ignored) =>
          UNCHANGED <<debounceTimers, readerVars>>]_vars

C25_Witness ==
  /\ Len(slog) >= 2
  /\ slog[Len(slog) - 1] = WatchEntry("raw", "add", "g")
  /\ slog[Len(slog)] = WatchEntry("raw", "unlink", "h")
  /\ "g" \in DOMAIN debounceTimers /\ debounceTimers["g"] = "add"

\* ------------------------------------------------- stop during a pass
StopCalls == {j \in 1..Len(slog) : slog[j].op = "stop" /\ slog[j].result = "ok"}

IndexOf(i, kind) ==
  CHOOSE j \in 1..Len(plog) : plog[j].kind = kind /\ plog[j].pass = i

\* C26: stop() leaves the reader's state as it is, and a pass in flight at
\* that moment goes on: each of its remaining lines is handed on, and it
\* ends with the offset stored and processing-complete, the server Stopped.
C26_StopDoesNotPreempt ==
  /\ [][(isRunning /\ ~isRunning') => UNCHANGED readerVars]_vars
  /\ [][\A i \in 1..Len(passes) :
          (/\ passes[i].pc = "lines"
           /\ <<passes'[i].pc, passes'[i].lines>>
                # <<passes[i].pc, passes[i].lines>>) =>
            IF passes[i].lines = <<>>
            THEN /\ passes'[i].pc = "done"
                 /\ Ended(i, "processing-complete")'
                 /\ passes[i].mode = "buffered" =>
                      GetPos(filePositions', passes[i].path) = passes[i].size
            ELSE /\ passes'[i].lines = Tail(passes[i].lines)
                 /\ IsBlank(Head(passes[i].lines).text)
                      \/ (/\ Len(plog') = Len(plog) + 1
                          /\ plog'[Len(plog')].pass = i
                          /\ plog'[Len(plog')].text = Head(passes[i].lines).text)
       ]_vars
  /\ \A i \in 1..MaxPasses :
       (~isRunning /\ i \in InFlight) ~>
         (~isRunning /\ i \in 1..Len(passes) /\ passes[i].pc = "done"
            /\ Ended(i, "processing-complete"))

C26_Witness ==
  \E j \in StopCalls, i \in 1..Len(passes) :
    /\ ~isRunning
    /\ passes[i].pc = "done" /\ Ended(i, "processing-complete")
    /\ IndexOf(i, "processing-start") <= slog[j].at
    /\ \E k \in 1..Len(plog) :
         plog[k].kind = "record" /\ plog[k].pass = i /\ k > slog[j].at
    /\ passes[i].mode = "buffered"
    /\ GetPos(filePositions, passes[i].path) = passes[i].size

\* ------------------------------------------------- nothing new to read
FoundUnchanged(i) ==
  /\ passes[i].mode = "buffered"
  /\ passes[i].gen >= 0
  /\ passes[i].size = passes[i].start

\* C27: a buffered pass that finds the file at its stored offset hands on
\* no line, emits no parse-error, leaves the offset table as it found it
\* and ends with processing-complete.
C27_NothingNewNothingDone ==
  \A i \in 1..Len(passes) :
    FoundUnchanged(i) =>
      /\ passes[i].pc = "done"
      /\ Ended(i, "processing-complete") /\ ~Ended(i, "processing-error")
      /\ ParsedBy(i) = <<>>
      /\ passes[i].was = IF i = Len(passes) THEN filePositions
                         ELSE passes[i + 1].was

C27_Witness ==
  \E i \in 1..Len(passes) :
    /\ FoundUnchanged(i)
    /\ passes[i].size > 0
    /\ Len(files[passes[i].path].data) > passes[i].size
    /\ Ended(i, "processing-complete")

\* ------------------------------------------------- tail from now
\* the first pass over p that begins after plog entry j
NextPassAfter(j, i) ==
  /\ i \in 1..Len(passes) /\ passes[i].path = plog[j].path
  /\ IndexOf(i, "processing-start") > j
  /\ \A k \in 1..Len(passes) :
       (k < i /\ passes[k].path = plog[j].path) =>
         /\ Ended(k, "processing-complete")
         /\ IndexOf(k, "processing-complete") < j

\* the complete, non-blank lines of p
WholeLines(p) ==
  LET T(l) == l.term /\ ~IsBlank(l.text)
  IN SelectSeq(LinesFrom(files[p].data, 1, 0), T)

\* pass i has handed on what the file holds from byte s on, line by line:
\* nothing but whole lines of the file that start at or after s, and each
\* of those that ends within the size the pass found
ReadFrom(i, s) ==
  LET p  == passes[i].path
      ls == WholeLines(p)
      es == ParsedBy(i)
  IN /\ \A n \in 1..Len(es) :
          /\ es[n].off >= s
          /\ \E k \in 1..Len(ls) :
               ls[k].off = es[n].off /\ ls[k].text = es[n].text
     /\ \A k \in 1..Len(ls) :
          (ls[k].off >= s /\ ls[k].off + Len(ls[k].text) < passes[i].size) =>
            \E n \in 1..Len(es) : es[n].off = ls[k].off

AtLineStart(p, s) == s = 0 \/ (s <= Len(files[p].data) /\ files[p].data[s] = "n")

\* C28: after initializeFilePosition has recorded the size S of a file, the
\* next pass over it hands on nothing if the file is still S bytes long and
\* otherwise exactly the lines appended after byte S; the first pass over a
\* file without a stored offset reads it from byte 0.
C28_TailFromNow ==
  /\ \A j \in Seeds, i \in 1..Len(passes) :
       (/\ Seeds = {j}
        /\ NextPassAfter(j, i)
        /\ AtLineStart(plog[j].path, plog[j].off)
        /\ passes[i].pc = "done") =>
         /\ Ended(i, "processing-complete")
         /\ passes[i].size = plog[j].off => ParsedBy(i) = <<>>
         /\ ReadFrom(i, plog[j].off)
  /\ \A i \in 1..Len(passes) :
       (/\ passes[i].path \notin DOMAIN passes[i].was
        /\ \A j \in Seeds : plog[j].path # passes[i].path
        /\ passes[i].pc = "done") =>
         /\ Ended(i, "processing-complete")
         /\ passes[i].start = 0
         /\ \A k \in 1..Len(WholeLines(passes[i].path)) :
              LET l == WholeLines(passes[i].path)[k] IN
              l.off + Len(l.text) < passes[i].size =>
                \E n \in 1..Len(ParsedBy(i)) : ParsedBy(i)[n].off = l.off

\* ------------------------------------------------- buffering disabled
Same(e1, e2) ==
  e1.off = e2.off /\ e1.text = e2.text /\ e1.kind = e2.kind
    /\ e1.lineNumber = e2.lineNumber

\* C29: with buffering disabled the offset table is never written, each
\* pass reads the file from byte 0 to its end, and a completed pass hands on
\* again every line that an earlier pass over the file handed on.
C29_UnbufferedReadsAll ==
  /\ [](~enableBuffering => filePositions = <<>>)
  /\ [][~enableBuffering =>
          \A i \in 1..Len(passes) :
            (passes[i].pc = "open" /\ passes'[i].pc = "lines") =>
              passes'[i].lines = LinesFrom(files[passes[i].path].data, 1, 0)
       ]_vars
  /\ [](~enableBuffering =>
          \A i, k \in 1..Len(passes) :
            (/\ i < k /\ passes[i].path = passes[k].path
             /\ Ended(k, "processing-complete")) =>
              \A n \in 1..Len(ParsedBy(i)) :
                ParsedBy(i)[n].term =>
                  \E m \in 1..Len(ParsedBy(k)) :
                    Same(ParsedBy(i)[n], ParsedBy(k)[m]))

C29_Witness ==
  /\ ~enableBuffering
  /\ Len(passes) >= 2
  /\ passes[1].path = "f" /\ passes[2].path = "f" /\ passes[2].pc = "done"
  /\ Len(ParsedBy(1)) = 1 /\ ParsedBy(1)[1].term
  /\ Len(ParsedBy(2)) = 2

\* ------------------------------------------------- missing global filters
GlobalFilterCalls ==
  LET T(c) == c.stage = "global-filter" /\ c.idx = 0
  IN SelectSeq(report.calls, T)

\* C30: the global filter stage invokes the registered names of the list, in
\* order, as long as each accepts the record; a name without a plugin is
\* passed over, and the record survives the stage exactly if the last filter
\* invoked, if any, accepted it.
C30_MissingGlobalFilterSkipped ==
  Done =>
    LET reg == RegisteredOf(globalFilters, filters)
        cs  == GlobalFilterCalls
    IN /\ IsPrefix(CallNames("global-filter", 0), reg)
       /\ \A i \in 1..(Len(cs) - 1) : cs[i].outcome = "true"
       /\ IF cs = <<>> \/ cs[Len(cs)].outcome = "true"
          THEN /\ Len(cs) = Len(reg)
               /\ HasEvent("pipeline-results", 0)
               /\ ~HasEvent("record-filtered-global", 0)
          ELSE /\ HasEvent("record-filtered-global", 0)
               /\ ~HasEvent("pipeline-results", 0)

C30_Witness ==
  /\ Done
  /\ globalFilters = <<"M", "A">>
  /\ "M" \notin filters /\ "A" \in filters
  /\ CallNames("global-filter", 0) = <<"A">>
  /\ record.f["A"] = "true"
  /\ HasEvent("pipeline-results", 0)

\* ------------------------------------------------- the plugin registry
\* the object of the latest registration of name n as kind, 0 if none
LatestOf(kind, n) ==
  LET js == {j \in 1..Len(regs) : regs[j].kind = kind /\ regs[j].name = n}
  IN IF js = {} THEN 0 ELSE regs[Max(js)].id

Lookup(m, n) == IF n \in DOMAIN m THEN m[n] ELSE 0

\* C31: a filter name and an output name each resolve to the object of the
\* latest registration of that name in their own map, to nothing if there
\* was none, and a registration of one kind leaves the other map as it was.
C31_LatestRegistrationWins ==
  /\ [](\A n \in PluginNames :
          /\ Lookup(filterOf, n) = LatestOf("filter", n)
          /\ Lookup(outputOf, n) = LatestOf("output", n)
          /\ n \in filters <=> LatestOf("filter", n) # 0
          /\ n \in outputs <=> LatestOf("output", n) # 0)
  /\ [][/\ filterOf' # filterOf => outputOf' = outputOf
        /\ outputOf' # outputOf => filterOf' = filterOf]_vars

C31_Witness ==
  /\ Len(regs) = 3
  /\ regs[1].kind = "filter" /\ regs[1].name = "A"
  /\ regs[2].kind = "output" /\ regs[2].name = "A"
  /\ regs[3].kind = "filter" /\ regs[3].name = "A"
  /\ filterOf["A"] = 3 /\ outputOf["A"] = 2

\* ------------------------------------------------- ConfigLoader
\* C32: a server made from a document whose options set enableBuffering to
\* false has a processor with buffering disabled, and its passes read the
\* whole file.
C32_BufferingOptionReachesEngine ==
  (built /\ doc # <<>> /\ doc[1].enableBuffering = "false") =>
    /\ ~enableBuffering
    /\ \A i \in 1..Len(passes) : passes[i].mode = "complete"

\* ------------------------------------------------- the frame of a pass
EventsOf(i) == {j \in 1..Len(plog) : plog[j].pass = i}

EndsOf(i) ==
  {j \in EventsOf(i) :
     plog[j].kind \in {"processing-complete", "processing-error"}}

\* C33: the first event of a pass is processing-start; a finished pass has
\* exactly one of processing-complete and processing-error, as its last
\* event, and a pass in flight has neither; the guard is set exactly while a
\* pass is in flight, so a call is turned away only then.
C33_PassIsFramed ==
  /\ [](\A i \in 1..Len(passes) :
          /\ EventsOf(i) # {}
          /\ plog[Min(EventsOf(i))].kind = "processing-start"
          /\ IF passes[i].pc = "done"
             THEN Cardinality(EndsOf(i)) = 1 /\ Max(EventsOf(i)) \in EndsOf(i)
             ELSE EndsOf(i) = {})
  /\ [](isProcessing <=> InFlight # {})
  /\ [][rejected' # rejected => InFlight # {}]_vars
  /\ [][Len(passes') > Len(passes) => InFlight = {}]_vars

\* a pass with a parse-error has ended well, one was turned away while it
\* ran, and a later pass has failed on the deleted file
C33_Witness ==
  /\ Len(passes) = 2 /\ InFlight = {}
  /\ Ended(1, "processing-complete")
  /\ \E j \in EventsOf(1) : plog[j].kind = "parse-error"
  /\ \E j \in EventsOf(1) : plog[j].kind = "record"
  /\ Ended(2, "processing-error")
  /\ rejected # {}

\* ------------------------------------------------- an unlink file-event
\* the timer of p fires with an unlink in it
UnlinkHandled(p) ==
  /\ p \in DOMAIN debounceTimers /\ debounceTimers[p] = "unlink"
  /\ p \notin DOMAIN debounceTimers'

\* C34: handling an unlink file-event deletes the offset of that path and
\* nothing else, starts no pass and does not look at the guard; and when
\* the file is gone, its unlink has been handled and no pass is in flight,
\* the offset table has no entry for the path.
C34_UnlinkForgetsOffset ==
  /\ [][\A p \in Paths :
          UnlinkHandled(p) =>
            /\ filePositions' = DelPos(filePositions, p)
            /\ UNCHANGED <<passes, plog, isProcessing, rejected>>]_vars
  /\ [](\A p \in Paths :
          (/\ ~files[p].exists /\ cuts[p] > 0
           /\ p \notin DOMAIN debounceTimers
           /\ InFlight = {}) =>
            p \notin DOMAIN filePositions)

\* ------------------------------------------------- pipeline results
\* pipeline.filter is registered and rejects the record
FilterRejected(k) ==
  /\ pipelines[k].filter # None
  /\ pipelines[k].filter \in filters
  /\ record.f[pipelines[k].filter] = "false"

\* pipeline.filter is not registered, or throws
FilterBroke(k) ==
  /\ pipelines[k].filter # None
  /\ \/ pipelines[k].filter \notin filters
     \/ record.f[pipelines[k].filter] = "throw"

\* C35: for a record that survived the global filters, the result of a
\* pipeline is (success, not filtered) exactly when its filter is absent or
\* accepted the record, whatever its outputs did; (success, filtered, no
\* output results) exactly when the filter rejected it; and (no success, no
\* output results) exactly when the filter is unregistered or threw.
C35_ResultFollowsFilter ==
  (Done /\ HasEvent("pipeline-results", 0)) =>
    /\ Len(report.results) = Len(pipelines)
    /\ \A k \in 1..Len(pipelines) :
         LET r == report.results[k] IN
         /\ FilterPassed(k) <=> (r.success /\ r.filtered = "false")
         /\ FilterRejected(k) <=>
              (r.success /\ r.filtered = "true" /\ r.outputResults = <<>>)
         /\ FilterBroke(k) <=> (~r.success /\ r.outputResults = <<>>)

\* a pipeline whose filter accepted the record and whose two outputs, one
\* throwing and one unregistered, both failed
C35_Witness ==
  /\ Done /\ HasEvent("pipeline-results", 0)
  /\ Len(pipelines) = 1
  /\ pipelines[1].filter = "A" /\ record.f["A"] = "true"
  /\ Len(report.results[1].outputResults) = 2
  /\ \A j \in 1..2 : ~report.results[1].outputResults[j].success
  /\ \E j \in 1..2 : pipelines[1].outputs[j] \notin outputs
  /\ \E j \in 1..2 : pipelines[1].outputs[j] \in outputs
  /\ report.results[1].success

\* ------------------------------------------------- output invocations
\* the invocations of output n at a stage for pipeline k (0: the global list)
OutputCalls(stage, k, n) ==
  {i \in 1..Len(report.calls) :
     /\ report.calls[i].stage = stage /\ report.calls[i].idx = k
     /\ report.calls[i].name = n}

Occurrences(names, n) == {j \in 1..Len(names) : names[j] = n}

OutputEvents(type, k, n) ==
  {i \in 1..Len(report.emitted) : report.emitted[i] = Event(type, k, n)}

\* C36: for a record that survived the global filters, a registered output
\* is invoked once for each occurrence of its name in the output list of a
\* pipeline whose filter passed and once for each occurrence in the global
\* output list, and never for a pipeline whose filter did not pass; each
\* invocation that did not throw has its record-output-pipeline or
\* record-output-global event, and no other such event is emitted.
C36_OutputsNotDeduplicated ==
  (Done /\ HasEvent("pipeline-results", 0)) =>
    \A n \in outputs :
      /\ \A k \in 1..Len(pipelines) :
           /\ Cardinality(OutputCalls("pipeline-output", k, n))
                = IF FilterPassed(k)
                  THEN Cardinality(Occurrences(pipelines[k].outputs, n))
                  ELSE 0
           /\ Cardinality(OutputEvents("record-output-pipeline", k, n))
                = Cardinality({i \in OutputCalls("pipeline-output", k, n) :
                                 report.calls[i].outcome = "ok"})
      /\ Cardinality(OutputCalls("global-output", 0, n))
           = Cardinality(Occurrences(globalOutputs, n))
      /\ Cardinality(OutputEvents("record-output-global", 0, n))
           = Cardinality({i \in OutputCalls("global-output", 0, n) :
                            report.calls[i].outcome = "ok"})
      /\ \A i \in 1..Len(report.calls) :
           (report.calls[i].name = n /\ report.calls[i].stage
              \in {"pipeline-output", "global-output"}) =>
             report.calls[i].idx \in 0..Len(pipelines)

\* output X is listed twice by a pipeline and once globally: three invocations
C36_Witness ==
  /\ Done /\ HasEvent("pipeline-results", 0)
  /\ Len(pipelines) = 1 /\ pipelines[1].outputs = <<"X", "X">>
  /\ globalOutputs = <<"X">>
  /\ record.o["X"] = "ok"
  /\ Cardinality(OutputCalls("pipeline-output", 1, "X")) = 2
  /\ Cardinality(OutputCalls("global-output", 0, "X")) = 1
  /\ Cardinality(OutputEvents("record-output-pipeline", 1, "X")) = 2

\* ------------------------------------------------- stop, then start again
StartCalls ==
  {j \in 1..Len(slog) : slog[j].op = "start" /\ slog[j].result = "ok"}

\* C37: start() after stop() makes the server Running with an open watcher,
\* neither call touches the offset table, and no line handed on before the
\* stop() is handed on again after the start().
C37_RestartKeepsOffsets ==
  /\ [][(isRunning' # isRunning) => UNCHANGED readerVars]_vars
  /\ [][(~isRunning /\ isRunning') => watcher']_vars
  /\ [](\A j \in StopCalls, k \in StartCalls :
          j < k =>
            \A e1, e2 \in 1..Len(plog) :
              (/\ e1 <= slog[j].at /\ e2 > slog[k].at
               /\ plog[e1].kind \in {"record", "parse-error"}
               /\ plog[e2].kind \in {"record", "parse-error"}
               /\ plog[e1].path = plog[e2].path) =>
                plog[e1].off # plog[e2].off)

\* ------------------------------------------------- HttpOutputPlugin
\* C38: with batchSize 1, a sendRequest call makes at most retries
\* requests, resolves only if one of them was OK, and rejects only after
\* exactly retries requests, none of them OK.
C38_ResolveMeansSent ==
  batchSize = 1 =>
    \A i \in 1..Len(sends) :
      /\ sends[i].made <= retries
      /\ sends[i].state = "resolved" => sends[i].ok
      /\ sends[i].state = "rejected" =>
           sends[i].made = retries /\ ~sends[i].ok

\* the send requests that were handed record r
SendsOf(r) ==
  {i \in 1..Len(sends) : \E k \in 1..Len(sends[i].records) :
                           sends[i].records[k] = r}

\* the pending batch is short of batchSize and has a timer pending
BatchBounded ==
  /\ Len(batch) < batchSize
  /\ batch # <<>> => batchTimer = "pending"

\* no record is handed to two send requests, and a request's records are
\* in arrival order
SentOnceInOrder ==
  /\ \A r \in 1..arrived : Cardinality(SendsOf(r)) <= 1
  /\ \A i \in 1..Len(sends) : \A k \in 1..(Len(sends[i].records) - 1) :
       sends[i].records[k] < sends[i].records[k + 1]

\* C39: with batchSize > 1, after every output() call the pending batch
\* holds fewer than batchSize records and a non-empty batch has a flush
\* timer pending; every record passed to output() is eventually handed to
\* exactly one send request, in arrival order within its batch.
C39_BatchedRecordsAreSent ==
  /\ [](batchSize > 1 => BatchBounded /\ SentOnceInOrder)
  /\ \A r \in 1..MaxOutputs :
       (batchSize > 1 /\ arrived >= r) ~> (Cardinality(SendsOf(r)) = 1)

====
